---- MODULE Spec2Model ----
(***************************************************************************)
(* Model of the rotation-fair assignment engine of auto-assignment.py:     *)
(* the ledger (df_history), the roster (df_people), the ranking functions  *)
(* and the orchestrator main_assignment.                                   *)
(*                                                                         *)
(* Text is modelled by TLA+ strings, computed on character by character    *)
(* (Len, SubSeq, \o), so that suffix stripping, case folding, date         *)
(* formatting/parsing and the text ordering used by sort_values are        *)
(* computed the way the Python code computes them.                         *)
(*                                                                         *)
(* The accented letters of the program's texts (the roster column of the   *)
(* gender, "Haga discipulos", "congregacion", "campana") are written       *)
(* without their accent: TLC keeps only the low byte of a character when   *)
(* a state goes through its disk queue, which would change such a text     *)
(* under SubSeq.  No two texts of the program or of the inputs differ in   *)
(* an accent only, and the accented letters are lower-case ones that the   *)
(* code's upper() and lower() calls leave as they are.                     *)
(***************************************************************************)
EXTENDS Integers, Sequences, FiniteSets, TLC

(***************************************************************************)
(* Python str primitives                                                   *)
(***************************************************************************)

\* Printable ASCII in code point order, as runs <<first code point, text>>.
\* The double quote (34), the apostrophe (39), the backslash (92) and the
\* grave accent (96) occur in no text of the model and are left out.
AsciiRuns ==
    << <<32, " !">>,
       <<35, "#$%&">>,
       <<40, "()*+,-./0123456789:;<=>?@ABCDEFGHIJKLMNOPQRSTUVWXYZ[">>,
       <<93, "]^_">>,
       <<97, "abcdefghijklmnopqrstuvwxyz{|}~">> >>

\* string.ascii_uppercase, string.ascii_lowercase, string.digits
AsciiUppercase == "ABCDEFGHIJKLMNOPQRSTUVWXYZ"
AsciiLowercase == "abcdefghijklmnopqrstuvwxyz"
Digits == "0123456789"

CharAt(s, i) == SubSeq(s, i, i)

CharsOf(s) == { CharAt(s, i) : i \in 1..Len(s) }

\* the least and the greatest of a set of positions, 0 when it is empty
First(positions) ==
    IF positions = {} THEN 0
    ELSE CHOOSE i \in positions : \A j \in positions : i <= j

Last(positions) ==
    IF positions = {} THEN 0
    ELSE CHOOSE i \in positions : \A j \in positions : i >= j

\* s.find(c) + 1
IndexOf(s, c) == First({ i \in 1..Len(s) : CharAt(s, i) = c })

\* table.get(x, default)
Lookup(table, x, default) == IF x \in DOMAIN table THEN table[x] ELSE default

\* the code point of c in the run it is in
CodeInRun(c, run) == run[1] + IndexOf(run[2], c) - 1

\* ord(c) for the printable ASCII characters
OrdTable ==
    [ c \in UNION { CharsOf(AsciiRuns[k][2]) : k \in DOMAIN AsciiRuns } |->
        CodeInRun(c, AsciiRuns[First({ k \in DOMAIN AsciiRuns : IndexOf(AsciiRuns[k][2], c) > 0 })]) ]

\* ord(c); a character outside the table sorts after all of ASCII, as its
\* code point does.
Ord(c) == Lookup(OrdTable, c, 255)

\* the case mappings of the ASCII letters
UpperTable ==
    [ c \in CharsOf(AsciiLowercase) |-> CharAt(AsciiUppercase, IndexOf(AsciiLowercase, c)) ]

LowerTable ==
    [ c \in CharsOf(AsciiUppercase) |-> CharAt(AsciiLowercase, IndexOf(AsciiUppercase, c)) ]

RECURSIVE MapChars(_, _, _)
MapChars(s, i, table) ==
    IF i > Len(s) THEN ""
    ELSE Lookup(table, CharAt(s, i), CharAt(s, i)) \o MapChars(s, i + 1, table)

\* str.upper() / str.lower()
Upper(s) == MapChars(s, 1, UpperTable)

Lower(s) == MapChars(s, 1, LowerTable)

\* str.endswith / str.startswith / the substring test (sub in s)
EndsWith(s, suf) ==
    Len(s) >= Len(suf) /\ SubSeq(s, Len(s) - Len(suf) + 1, Len(s)) = suf

StartsWith(s, pre) == Len(s) >= Len(pre) /\ SubSeq(s, 1, Len(pre)) = pre

Contains(s, sub) ==
    \E i \in 1..(Len(s) + 1) :
        i + Len(sub) - 1 <= Len(s) /\ SubSeq(s, i, i + Len(sub) - 1) = sub

\* s[first-1:last], "" when there is nothing to keep
Between(s, positions) ==
    IF positions = {} THEN "" ELSE SubSeq(s, First(positions), Last(positions))

\* str.strip(): leading and trailing blanks removed
Strip(s) == Between(s, { i \in 1..Len(s) : CharAt(s, i) # " " })

\* a < b decided at the first position k where they differ (0: none)
LessAt(a, b, k) ==
    IF k = 0 THEN Len(a) < Len(b)
    ELSE LET code == [c \in {CharAt(a, k), CharAt(b, k)} |-> Ord(c)]
         IN  code[CharAt(a, k)] < code[CharAt(b, k)]

Min(a, b) == IF a < b THEN a ELSE b

\* a < b for Python str: code point order, a proper prefix sorting first
StrLess(a, b) ==
    LessAt(a, b, First({ i \in 1..Min(Len(a), Len(b)) : CharAt(a, i) # CharAt(b, i) }))

\* A blank spreadsheet cell is read as the float NaN, and str(NaN) is "nan".
\* read_excel also turns the text "nan" into NaN, so no text cell is "nan".
NaN == "nan"

(***************************************************************************)
(* CONFIG: SMM SUBPARTS => unify last-date among them                      *)
(***************************************************************************)

SMM_SUBPARTS ==
    { "Discurso", "Haga Revisitas", "Empiece conversaciones",
      "Haga discipulos", "Explique sus creencias" }

SPECIALIZED_PARTS == { "Lectura" } \cup SMM_SUBPARTS

strip_sala_b_suffix(part_key) ==
    IF EndsWith(part_key, " Sala B")
    THEN Strip(SubSeq(part_key, 1, Len(part_key) - 7))
    ELSE part_key

is_smm_subpart(part_key) == strip_sala_b_suffix(part_key) \in SMM_SUBPARTS

(***************************************************************************)
(* datetime.date: calendar arithmetic                                      *)
(***************************************************************************)

Date(y, m, d) == [year |-> y, month |-> m, day |-> d]

\* None, as returned by parse_date_str
None == Date(0, 0, 0)

IsLeap(y) == y % 4 = 0 /\ (y % 100 # 0 \/ y % 400 = 0)

DaysInMonth(y, m) ==
    IF m = 2 THEN (IF IsLeap(y) THEN 29 ELSE 28)
    ELSE IF m \in {4, 6, 9, 11} THEN 30 ELSE 31

RECURSIVE DaysBeforeMonth(_, _)
DaysBeforeMonth(y, m) ==
    IF m <= 1 THEN 0 ELSE DaysBeforeMonth(y, m - 1) + DaysInMonth(y, m - 1)

DaysBeforeYear(y) ==
    (y - 1) * 365 + (y - 1) \div 4 - (y - 1) \div 100 + (y - 1) \div 400

\* date.toordinal()
ToOrdinal(dt) == DaysBeforeYear(dt.year) + DaysBeforeMonth(dt.year, dt.month) + dt.day

\* (a - b).days
DaysBetween(a, b) == ToOrdinal(a) - ToOrdinal(b)

\* datetime(1900,1,1).date(): the "never assigned" date
Sentinel == Date(1900, 1, 1)

(***************************************************************************)
(* strftime("%d/%m/%Y") and strptime                                       *)
(***************************************************************************)

DigitStr(n) == CharAt(Digits, n + 1)

Pad2(n) == DigitStr(n \div 10) \o DigitStr(n % 10)

Pad4(n) == Pad2(n \div 100) \o Pad2(n % 100)

\* mtg_date.strftime("%d/%m/%Y")
strftime_dmY(dt) == Pad2(dt.day) \o "/" \o Pad2(dt.month) \o "/" \o Pad4(dt.year)

\* str(n) of a natural number
RECURSIVE Decimal(_)
Decimal(n) == IF n < 10 THEN DigitStr(n) ELSE Decimal(n \div 10) \o DigitStr(n % 10)

\* What strftime("%d/%m/%Y") can give: the C library prints %Y either padded
\* with zeros to four digits or not padded at all (glibc); the two are the
\* same text from the year 1000 on.
strftime_texts(dt) ==
    { strftime_dmY(dt),
      Pad2(dt.day) \o "/" \o Pad2(dt.month) \o "/" \o Decimal(dt.year) }

AllDigits(s) == Len(s) > 0 /\ \A i \in 1..Len(s) : IndexOf(Digits, CharAt(s, i)) > 0

\* int(s) of a text of digits
RECURSIVE ToInt(_)
ToInt(s) ==
    IF Len(s) = 0 THEN 0
    ELSE 10 * ToInt(SubSeq(s, 1, Len(s) - 1)) + IndexOf(Digits, CharAt(s, Len(s))) - 1

\* the three fields around the separators at positions, <<>> unless there
\* are exactly two separators
Split3(s, positions) ==
    IF Cardinality(positions) # 2 THEN <<>>
    ELSE << SubSeq(s, 1, First(positions) - 1),
            SubSeq(s, First(positions) + 1, Last(positions) - 1),
            SubSeq(s, Last(positions) + 1, Len(s)) >>

Fields(s, sep) == Split3(s, { i \in 1..Len(s) : CharAt(s, i) = sep })

\* date(y, m, d), None for the ValueError of a day that is not in the month
ValidDate(y, m, d) ==
    IF y >= 1 /\ m >= 1 /\ m <= 12 /\ d >= 1 /\ d <= DaysInMonth(y, m)
    THEN Date(y, m, d) ELSE None

\* The date of the fields f taken as year, month, day in the order given
\* (%Y is four digits, %m and %d one or two), None when strptime raises.
FieldsToDate(f, order) ==
    IF f = <<>> THEN None
    ELSE IF /\ AllDigits(f[order[1]] \o f[order[2]] \o f[order[3]])
            /\ Len(f[order[1]]) = 4
            /\ Len(f[order[2]]) \in {1, 2}
            /\ Len(f[order[3]]) \in {1, 2}
    THEN ValidDate(ToInt(f[order[1]]), ToInt(f[order[2]]), ToInt(f[order[3]]))
    ELSE None

\* the separator of a format, and where its year, month and day fields are
Separator(fmt) == IF fmt = "%Y-%m-%d" THEN "-" ELSE "/"

FieldOrder(fmt) ==
    CASE fmt = "%Y-%m-%d" -> <<1, 2, 3>>
      [] fmt = "%d/%m/%Y" -> <<3, 2, 1>>
      [] fmt = "%m/%d/%Y" -> <<3, 1, 2>>

\* datetime.strptime(date_val, fmt).date(), None for ValueError
strptime(s, fmt) == FieldsToDate(Fields(s, Separator(fmt)), FieldOrder(fmt))

\* for fmt in (...): try: return strptime(...) except ValueError: pass
RECURSIVE TryFormats(_, _)
FirstParsed(dt, date_val, later) ==
    IF dt # None THEN dt ELSE TryFormats(date_val, later)

TryFormats(date_val, fmts) ==
    IF fmts = <<>> THEN None
    ELSE FirstParsed(strptime(date_val, Head(fmts)), date_val, Tail(fmts))

\* Cells are text, or NaN when blank (not a str: None).
parse_date_str(date_val) ==
    IF date_val = NaN THEN None
    ELSE TryFormats(date_val, << "%Y-%m-%d", "%d/%m/%Y", "%m/%d/%Y" >>)

(***************************************************************************)
(* The ledger df_history: a sequence of rows [Name, Part, AssignmentDate]. *)
(* AssignmentDate is a text cell (NaN when blank).                         *)
(***************************************************************************)

HistoryRow(name, part, date_str) ==
    [Name |-> name, Part |-> part, AssignmentDate |-> date_str]

InsertAt(a, x, k) == SubSeq(a, 1, k) \o <<x>> \o SubSeq(a, k + 1, Len(a))

\* One row put in its place among rows already sorted in descending text
\* order, after the rows that are not smaller (ties keep their order).
InsertDesc(sorted, x) ==
    InsertAt(sorted, x,
             Cardinality({ i \in 1..Len(sorted) :
                             ~StrLess(sorted[i].AssignmentDate, x.AssignmentDate) }))

RECURSIVE SortDesc(_)
SortDesc(rows) ==
    IF rows = <<>> THEN <<>>
    ELSE InsertDesc(SortDesc(SubSeq(rows, 1, Len(rows) - 1)), rows[Len(rows)])

\* sub.sort_values("AssignmentDate", ascending=False): the cells are compared
\* as the text they are; blank (NaN) cells go last.
sort_values_desc(rows) ==
    SortDesc(SelectSeq(rows, LAMBDA row : row.AssignmentDate # NaN))
        \o SelectSeq(rows, LAMBDA row : row.AssignmentDate = NaN)

\* return parsed if parsed else datetime(1900,1,1).date()
OrSentinel(parsed) == IF parsed # None THEN parsed ELSE Sentinel

\* if sub.empty the sentinel, else the parse of
\* sub.sort_values(...)["AssignmentDate"].iloc[0], or the sentinel
LastDateOf(sub) ==
    IF sub = <<>> THEN Sentinel
    ELSE OrSentinel(parse_date_str(sort_values_desc(sub)[1].AssignmentDate))

get_unified_smm_last_date(history, person_name) ==
    IF SelectSeq(history, LAMBDA row : row.Name = person_name) = <<>> THEN Sentinel
    ELSE LastDateOf(SelectSeq(SelectSeq(history, LAMBDA row : row.Name = person_name),
                           LAMBDA row : strip_sala_b_suffix(row.Part) \in SMM_SUBPARTS))

\* A lookup without the unification: every key has a clock of its own.
direct_match_only(history, person_name, part_key) ==
    LastDateOf(SelectSeq(history, LAMBDA row :
                  row.Name = person_name /\ row.Part = part_key))

get_last_assignment_date(history, person_name, part_key) ==
    IF strip_sala_b_suffix(part_key) \in SMM_SUBPARTS
    THEN get_unified_smm_last_date(history, person_name)
    ELSE IF strip_sala_b_suffix(part_key) = "Lectura"
    THEN LastDateOf(SelectSeq(history, LAMBDA row :
                        /\ row.Name = person_name
                        /\ strip_sala_b_suffix(row.Part) = "Lectura"))
    ELSE LastDateOf(SelectSeq(history, LAMBDA row :
                        row.Name = person_name /\ row.Part = part_key))

\* An append that puts the new record first.
add_history_first(history, hermano_name, part_key, mtg_date) ==
    << HistoryRow(hermano_name, part_key, strftime_dmY(mtg_date)) >> \o history

\* add_history when dt_str is the text date_text
add_history_text(history, hermano_name, part_key, date_text) ==
    history \o << HistoryRow(hermano_name, part_key, date_text) >>

add_history(history, hermano_name, part_key, mtg_date) ==
    history \o << HistoryRow(hermano_name, part_key, strftime_dmY(mtg_date)) >>

\* A lookup that sorts the caller's frame itself.
sorted_in_place(history) == sort_values_desc(history)

\* The caller's df_history after the lookups of a ranking: the lookups select
\* rows into new frames (.copy(), boolean masks) and sort_values returns a
\* new frame, so the caller's frame is the one it passed.
after_lookups(history) == history

(***************************************************************************)
(* Floats.  A float is NaN or a number; the numbers of the model are       *)
(* modifiers, counted in halves, and scores, counted in fourteenths of a   *)
(* week (days times halves).  The modifiers of the model are powers of     *)
(* two, for which the float product (days / 7.0) * modifier is ordered     *)
(* exactly as the integers days * halves are.                              *)
(***************************************************************************)

Float(v) == [nan |-> FALSE, v |-> v]

FloatNaN == [nan |-> TRUE, v |-> 0]

\* a < b on floats: False when either is NaN
FloatLT(a, b) == ~a.nan /\ ~b.nan /\ a.v < b.v

\* the float 1.0, in halves
One == Float(2)

(***************************************************************************)
(* The roster df_people: [columns, rows]; a row maps each column to its    *)
(* cell.  Flag and gender cells are text (NaN when blank), "<column> Mod"  *)
(* cells are floats.  A row's index is its position.                       *)
(***************************************************************************)

\* str(row.get(col, default)).upper()
Get(row, col, default) == Upper(Lookup(row, col, default))

\* A mapping that only strips the suffix.
column_is_base(part_key) == strip_sala_b_suffix(part_key)

\* MAPPING to 'Estudiante'
get_people_column_for_part(part_key) ==
    IF strip_sala_b_suffix(part_key) \in SPECIALIZED_PARTS
    THEN "Estudiante"
    ELSE strip_sala_b_suffix(part_key)

\* The difference taken the other way round.
weeks_until_assignment(last_date, current_date) == DaysBetween(last_date, current_date)

\* weeks_since_assignment, in days: (current_date - last_date).days
weeks_since_assignment(last_date, current_date) == DaysBetween(current_date, last_date)

\* df_people.at[idx, mod_col] if mod_col in df_people.columns else 1.0
ModVal(people, idx, mod_col) ==
    IF mod_col \in people.columns THEN people.rows[idx][mod_col] ELSE One

\* wks * float(mod_val)
Product(wks, mod_val) == IF mod_val.nan THEN FloatNaN ELSE Float(wks * mod_val.v)

\* the lines of compute_score_and_lastdate after last_date is known
ScoreAndLastDate(people, idx, part_key, meeting_date, last_date) ==
    << Product(weeks_since_assignment(last_date, meeting_date),
               ModVal(people, idx, get_people_column_for_part(part_key) \o " Mod")),
       last_date >>

\* <<score, last_date>>
compute_score_and_lastdate(people, history, idx, part_key, meeting_date) ==
    ScoreAndLastDate(people, idx, part_key, meeting_date,
        get_last_assignment_date(history, people.rows[idx]["Hermano"], part_key))

\* One pass of the filter loop of get_top_candidates: is the row kept?
\* required_gender "" stands for None (both are falsy).
\* The filter without its test of assigned_so_far.
keeps_assigned(row, col_name, assigned_so_far, required_gender) ==
    /\ Get(row, "Activo?", "NO") = "YES"
    /\ \/ required_gender = ""
       \/ Get(row, "Genero", "") = Upper(required_gender)
    /\ Get(row, col_name, "NO") = "YES"

\* The filter without its test of "Activo?".
keeps_inactive(row, col_name, assigned_so_far, required_gender) ==
    /\ row["Hermano"] \notin assigned_so_far
    /\ \/ required_gender = ""
       \/ Get(row, "Genero", "") = Upper(required_gender)
    /\ Get(row, col_name, "NO") = "YES"

\* The filter without its test of the gender.
keeps_any_gender(row, col_name, assigned_so_far, required_gender) ==
    /\ Get(row, "Activo?", "NO") = "YES"
    /\ row["Hermano"] \notin assigned_so_far
    /\ Get(row, col_name, "NO") = "YES"

Keeps(row, col_name, assigned_so_far, required_gender) ==
    /\ Get(row, "Activo?", "NO") = "YES"
    /\ row["Hermano"] \notin assigned_so_far
    /\ \/ required_gender = ""
       \/ Get(row, "Genero", "") = Upper(required_gender)
    /\ Get(row, col_name, "NO") = "YES"

\* valid_idx: the indices of the rows kept, in roster order
valid_idx(people, part_key, assigned_so_far, required_gender) ==
    SelectSeq([i \in 1..Len(people.rows) |-> i],
              LAMBDA idx : Keeps(people.rows[idx], get_people_column_for_part(part_key),
                                 assigned_so_far, required_gender))

(***************************************************************************)
(* list.sort(key=..., reverse=True) on a list shorter than 64: the list is *)
(* reversed, sorted ascending by binary insertion after its initial run,   *)
(* and reversed again.  Only key < key comparisons are made.               *)
(***************************************************************************)

Reverse(a) == [i \in 1..Len(a) |-> a[Len(a) + 1 - i]]

\* the key of a scored entry <<cidx, sc, ldate>>: x[1] of the code
SortKey(x) == x[2]

KeyLess(x, y) == FloatLT(SortKey(x), SortKey(y))

RECURSIVE CountRun(_, _, _)
CountRun(a, n, descending) ==
    IF n >= Len(a) THEN n
    ELSE IF KeyLess(a[n + 1], a[n]) = descending
         THEN CountRun(a, n + 1, descending)
         ELSE n

RECURSIVE BinarySearch(_, _, _, _)
BinarySearch(a, pivot, lo, hi) ==
    IF lo >= hi THEN lo
    ELSE IF KeyLess(pivot, a[lo + ((hi - lo) \div 2) + 1])
         THEN BinarySearch(a, pivot, lo, lo + ((hi - lo) \div 2))
         ELSE BinarySearch(a, pivot, lo + ((hi - lo) \div 2) + 1, hi)

\* a[start] moved down to position k of the sorted prefix a[0:start]
MoveTo(a, start, k) ==
    SubSeq(a, 1, k) \o <<a[start + 1]>> \o SubSeq(a, k + 1, start)
        \o SubSeq(a, start + 2, Len(a))

RECURSIVE BinarySort(_, _)
BinarySort(a, start) ==
    IF start >= Len(a) THEN a
    ELSE BinarySort(MoveTo(a, start, BinarySearch(a, a[start + 1], 0, start)), start + 1)

\* the initial run of n entries, reversed in place when it is descending
RunReversed(a, n, descending) ==
    IF descending THEN Reverse(SubSeq(a, 1, n)) \o SubSeq(a, n + 1, Len(a)) ELSE a

SortFromRun(a, n, descending) == BinarySort(RunReversed(a, n, descending), n)

SortWithRun(a, descending) == SortFromRun(a, CountRun(a, 2, descending), descending)

ListSortAscending(a) ==
    IF Len(a) < 2 THEN a ELSE SortWithRun(a, KeyLess(a[2], a[1]))

\* scored.sort(key=lambda x:x[1], reverse=True)
\* The sort without reverse=True.
sort_by_score(scored) == ListSortAscending(scored)

sort_by_score_reverse(scored) == Reverse(ListSortAscending(Reverse(scored)))

\* scored[:top_n]
Take(a, n) == SubSeq(a, 1, Min(n, Len(a)))

\* scored: (cidx, sc, ldate) for cidx in valid_idx
Scored(people, history, part_key, meeting_date, valid) ==
    [k \in 1..Len(valid) |->
        <<valid[k]>> \o compute_score_and_lastdate(people, history, valid[k],
                                                   part_key, meeting_date)]

\* the lines of get_top_candidates after the filter loop
TopOf(people, history, part_key, meeting_date, top_n, valid) ==
    IF valid = <<>> THEN <<>>
    ELSE Take(sort_by_score_reverse(Scored(people, history, part_key, meeting_date, valid)),
              top_n)

get_top_candidates(people, history, part_key, meeting_date, assigned_so_far, top_n, required_gender) ==
    TopOf(people, history, part_key, meeting_date, top_n,
          valid_idx(people, part_key, assigned_so_far, required_gender))

(***************************************************************************)
(* Interactive answers and the weekly program                              *)
(***************************************************************************)

\* the tests of ask_gender_or_skip on ans = input(...).strip().lower()
GenderOrSkip(ans) ==
    IF ans \in {"v", "m"} THEN Upper(ans)
    ELSE IF ans \in {"skip", ""} THEN "skip"
    ELSE "invalid"

\* ask_gender_or_skip on one typed answer: "V", "M", "skip", or "invalid"
\* when the loop prints the error and asks again.
ask_gender_or_skip(typed) == GenderOrSkip(Lower(Strip(typed)))

\* int(s) of a text of digits with an optional sign, default when int(s)
\* raises ValueError (the answers of the model hold no underscore, no inner
\* blank and no digit outside 0-9)
IntOr(s, default) ==
    IF AllDigits(s) THEN ToInt(s)
    ELSE IF Len(s) > 1 /\ CharAt(s, 1) = "+" /\ AllDigits(SubSeq(s, 2, Len(s)))
    THEN ToInt(SubSeq(s, 2, Len(s)))
    ELSE IF Len(s) > 1 /\ CharAt(s, 1) = "-" /\ AllDigits(SubSeq(s, 2, Len(s)))
    THEN 0 - ToInt(SubSeq(s, 2, Len(s)))
    ELSE default

\* The tests with the empty answer taken as "skip".
choice_or_default(choice, max_count) ==
    IF choice \in {"skip", ""} THEN "skip"
    ELSE IF IntOr(choice, 0) \in 1..max_count
    THEN DigitStr(IntOr(choice, 0))
    ELSE "invalid"

\* the tests of the while loop of pick_candidate_interactively on
\* choice = input(...).strip().lower(): "skip", the rank cnum as a digit
\* when 1 <= cnum <= max_count, or "invalid"
ChoiceOrSkip(choice, max_count) ==
    IF choice = "skip" THEN "skip"
    ELSE IF IntOr(choice, 0) \in 1..max_count
    THEN DigitStr(IntOr(choice, 0))
    ELSE "invalid"

\* One pass of that loop on one typed answer: "skip" (return None), the
\* number typed when it is in 1..max_count, or "invalid" when the answer is
\* rejected and the prompt is repeated.
PickChoice(typed, max_count) == ChoiceOrSkip(Lower(Strip(typed)), max_count)

\* A cell of weekly_df as text: val if it is a str, "" when blank; None
\* (here "") when the row is not in the index.
CellText(column, row_idx) ==
    IF row_idx \notin DOMAIN column.cells THEN ""
    ELSE IF column.cells[row_idx] = NaN THEN ""
    ELSE column.cells[row_idx]

\* txt = val.strip().lower()
CellTxt(column, row_idx) == Lower(Strip(CellText(column, row_idx)))

TesorosOrPerlas(txt) ==
    IF StartsWith(txt, "1.") THEN "Tesoros"
    ELSE IF StartsWith(txt, "2.") THEN "Perlas"
    ELSE ""

\* identify_tesoros_perlas: the part key, or "" for (None, None)
identify_tesoros_perlas(column, row_idx) == TesorosOrPerlas(CellTxt(column, row_idx))

NvcType(txt) ==
    IF Len(txt) = 0 THEN ""
    ELSE IF Contains(txt, "estudio biblico de la congregacion") THEN "EBC"
    ELSE IF Contains(txt, "necesidades de la congregacion") THEN "Necesidades"
    ELSE "NVC"

\* identify_nvc_type: the category, or "" for (None, None)
identify_nvc_type(column, row_idx) == NvcType(CellTxt(column, row_idx))

\* identify_lectura: the flag is_lec
identify_lectura(column, row_idx) ==
    StartsWith(CellTxt(column, row_idx), "3. lectura de la biblia")

\* identify_smm: the stripped text, "" for (False, None)
identify_smm(column, row_idx) == Strip(CellText(column, row_idx))

\* get_date_columns: the positions of the columns whose header is a date
get_date_columns(weekly) ==
    SelectSeq([i \in 1..Len(weekly) |-> i],
              LAMBDA i : parse_date_str(weekly[i].header) # None)

\* the keyword chain of the SMM rows on low_smm = smm_text.lower()
SubpartOf(low_smm) ==
    IF Contains(low_smm, "discurso") THEN "Discurso"
    ELSE IF Contains(low_smm, "revisitas") THEN "Haga Revisitas"
    ELSE IF Contains(low_smm, "empiece conversaciones") THEN "Empiece conversaciones"
    ELSE IF Contains(low_smm, "haga discipulos") THEN "Haga discipulos"
    ELSE IF Contains(low_smm, "explique sus creencias") THEN "Explique sus creencias"
    ELSE "Estudiante"

\* the sub-part of an SMM title
SmmSubpart(smm_text) == SubpartOf(Lower(smm_text))

\* required_g after ask_gender_or_skip answered ans ("V" or "M"): the named
\* sub-parts test ans in ["V","M"], the catch-all branch tests
\* ans in ["v","m"].  "" stands for None.
RequiredGenderFor(subpart, ans) ==
    IF strip_sala_b_suffix(subpart) = "Estudiante"
    THEN (IF ans \in {"v", "m"} THEN Upper(ans) ELSE "")
    ELSE (IF ans \in {"V", "M"} THEN ans ELSE "")

\* nvc_parts, other_nvc, ebc_ent of a column (rows 13..15)
nvc_parts(column) ==
    SelectSeq([k \in 1..3 |-> identify_nvc_type(column, 12 + k)],
              LAMBDA cat : cat # "")

other_nvc(column) == SelectSeq(nvc_parts(column), LAMBDA cat : cat # "EBC")

ebc_ent(column) == SelectSeq(nvc_parts(column), LAMBDA cat : cat = "EBC")

final_rows ==
    << "PRESIDENCIA", "TESOROS", "PERLAS", "LECTURA", "SMM1", "SMM2", "SMM3",
       "SMM4", "NVC1", "NVC2", "EBC", "LECTOR EBC", "ORACION", "LECTURA Sala B",
       "SMM1 Sala B", "SMM2 Sala B", "SMM3 Sala B", "SMM4 Sala B" >>

\* f"SMM{smm_index}"
SmmLabel(i) == "SMM" \o DigitStr(i)

(***************************************************************************)
(* State                                                                   *)
(***************************************************************************)

VARIABLES
    df_people,        \* the roster
    df_history,       \* the ledger held by main_assignment
    weekly_df,        \* the weekly programs: columns [header, cells]
    date_cols,        \* get_date_columns(weekly_df): positions of the date columns
    pc,               \* the slot main_assignment is at
    phase,            \* "begin", "gender" (ask_gender_or_skip), "pick" (prompt)
    col_i,            \* position in date_cols of the date in progress
    mtg_date,
    assigned_today,
    df_final,         \* the output table: label -> header -> name or NaN
    r, tesoros_found, perlas_found,
    is_lec,
    smm_index, smm_texts_main, r_smm, i_sb,
    part_key, part_label, top_n, required_g,   \* arguments of the slot at hand
    cand,             \* its top candidates <<cidx, sc, ldate>>
    saved_history,    \* sheet AssignmentHistory of people_data.xlsx
    final_xlsx,       \* final_assignments.xlsx, <<>> until written
    history0,         \* the ledger as loaded
    n_appends,        \* add_history calls made so far
    n_calls,          \* get_top_candidates calls made on the arguments at hand
    q_name, last_date, \* a get_last_assignment_date call and its result
    evals,            \* the compute_score_and_lastdate calls made, with their results
    answer, picked,   \* the last text typed at a selection prompt; the name returned ("" is None)
    last_ans,         \* ans of main_assignment: what ask_gender_or_skip last returned ("" before)
    rec_smm           \* what get_recent_smm_assignments last returned (<<>> before)

data == <<df_people, weekly_df, date_cols, history0>>
control == <<pc, r, tesoros_found, perlas_found, smm_index, smm_texts_main, r_smm, i_sb>>
slot == <<part_key, part_label, top_n, required_g, cand>>
pick_io == <<answer, picked, last_ans, rec_smm>>
query == <<q_name, last_date, n_calls, evals, pick_io>>
vars == <<df_people, df_history, weekly_df, date_cols, pc, phase, col_i, mtg_date,
          assigned_today, df_final, r, tesoros_found, perlas_found, is_lec,
          smm_index, smm_texts_main, r_smm, i_sb, part_key, part_label, top_n,
          required_g, cand, saved_history, final_xlsx, history0, n_appends,
          n_calls, q_name, last_date, evals, answer, picked, last_ans, rec_smm>>

(***************************************************************************)
(* Inputs of the model                                                     *)
(***************************************************************************)

Row(name, activo, genero, flags, mods) ==
    [c \in {"Hermano", "Activo?", "Genero"} \cup DOMAIN flags \cup DOMAIN mods |->
        IF c = "Hermano" THEN name
        ELSE IF c = "Activo?" THEN activo
        ELSE IF c = "Genero" THEN genero
        ELSE IF c \in DOMAIN flags THEN flags[c] ELSE mods[c]]

\* A DataFrame: every row has every column; a cell never filled in is NaN.
Roster(rows) ==
    LET columns == UNION { DOMAIN rows[i] : i \in 1..Len(rows) }
    IN  [columns |-> columns,
         rows    |-> [i \in 1..Len(rows) |->
                        [c \in columns |->
                            IF c \in DOMAIN rows[i] THEN rows[i][c]
                            ELSE IF EndsWith(c, " Mod") THEN FloatNaN ELSE NaN]]]

Flags(yes, no) == [c \in yes \cup no |-> IF c \in yes THEN "YES" ELSE "NO"]

NoMods == [c \in {} |-> One]

\* The rosters main_assignment is run on: three and four people, flags in
\* either letter case, a blank flag, every flag column used by a slot.
SmallRoster ==
    Roster(<< Row("Ana", "YES", "M", Flags({"Estudiante"}, {"Presidencia", "Oraciones"}), NoMods),
              Row("Beto", "yes", "V",
                  Flags({"Estudiante", "Presidencia", "Lector EBC"}, {"Oraciones"}), NoMods),
              Row("Carlos", "YES", "V",
                  Flags({"Tesoros", "EBC", "Oraciones"}, {"Estudiante"}), NoMods) >>)

LargeRoster ==
    Roster(<< Row("Ana", "YES", "M",
                  Flags({"Estudiante"}, {"NVC"}), [c \in {"Estudiante Mod"} |-> Float(4)]),
              Row("Beto", "YES", "V",
                  Flags({"Estudiante", "Perlas", "NVC"}, {}), [c \in {"Estudiante Mod"} |-> FloatNaN]),
              Row("Carlos", "NO", "V",
                  Flags({"Estudiante", "Presidencia"}, {}), [c \in {"Estudiante Mod"} |-> One]),
              Row("Dora", NaN, "M",
                  Flags({"Estudiante", "Necesidades"}, {}), [c \in {"Estudiante Mod"} |-> One]) >>)

Column(header, cells) == [header |-> header, cells |-> cells]

\* Two weekly programs (rows 3..15 of the sheet, blank rows left blank).
ProgramA ==
    [i \in {3, 4, 5, 7, 8, 9, 13, 14, 15} |->
        CASE i = 3 -> "1. Sean valientes (10 mins.)"
          [] i = 4 -> "2. Busquemos perlas escondidas"
          [] i = 5 -> "3. Lectura de la Biblia (4 mins.)"
          [] i = 7 -> "4. Empiece conversaciones (3 mins.)"
          [] i = 8 -> NaN
          [] i = 9 -> "6. Discurso (5 mins.)"
          [] i = 13 -> "7. Necesidades de la congregacion"
          [] i = 14 -> "8. Estudio biblico de la congregacion"
          [] i = 15 -> NaN]

ProgramB ==
    [i \in {3, 4, 5, 7, 8, 9, 13, 14} |->
        CASE i = 3 -> "2. Busquemos perlas escondidas"
          [] i = 4 -> "1. Sean valientes (10 mins.)"
          [] i = 5 -> "Asamblea de circuito"
          [] i = 7 -> "4. Haga revisitas (4 mins.)"
          [] i = 8 -> "5. Video de la campana"
          [] i = 9 -> "6. Explique sus creencias"
          [] i = 13 -> "7. Informe anual"
          [] i = 14 -> "8. Logros de la organizacion"]

\* The date headers are written as %d/%m/%Y, in date order, by the
\* extractor; a column that is not a date may come first.
OneWeek == << Column("Semana", ProgramB), Column("30/01/2024", ProgramA) >>

TwoWeeks == << Column("30/01/2024", ProgramA), Column("06/02/2024", ProgramB) >>

TwoWeeksSwapped == << Column("30/01/2024", ProgramB), Column("06/02/2024", ProgramA) >>

\* The runs of main_assignment: << roster, weekly programs >>
MainRuns ==
    { <<SmallRoster, OneWeek>>, <<LargeRoster, TwoWeeks>>, <<LargeRoster, TwoWeeksSwapped>> }

\* The ledgers main_assignment starts from: none, and one from earlier runs.
MainLedgers ==
    { <<>>,
      << HistoryRow("Beto", "Discurso", "2024-01-16"),
         HistoryRow("Ana", "Estudiante Sala B", "23/01/2024") >> }

\* What is typed at the prompts.
GenderAnswers == {"V", "m", "skip", "", "x"}
PickAnswers == {"1", "2", "3", "4", "6", "0", " Skip ", "uno", "+2", "02", "-1", ""}
SalaBAnswers == {"Y ", "n", "", "yes"}

(***************************************************************************)
(* main_assignment                                                         *)
(***************************************************************************)

\* the column of weekly_df of the date in progress, and its header col
Col == weekly_df[date_cols[col_i]]

Range(f) == { f[x] : x \in DOMAIN f }

\* pd.DataFrame(index=final_rows, columns=date_cols): every cell blank
EmptyFinal(weekly) ==
    [label \in Range(final_rows) |->
        [h \in { weekly[i].header : i \in Range(get_date_columns(weekly)) } |-> NaN]]

NoTexts == <<"", "", "", "">>

Ctl ==
    [pc |-> pc, r |-> r, tesoros_found |-> tesoros_found, perlas_found |-> perlas_found,
     smm_index |-> smm_index, smm_texts_main |-> smm_texts_main, r_smm |-> r_smm,
     i_sb |-> i_sb]

SetControl(c) ==
    /\ pc' = c.pc
    /\ r' = c.r
    /\ tesoros_found' = c.tesoros_found
    /\ perlas_found' = c.perlas_found
    /\ smm_index' = c.smm_index
    /\ smm_texts_main' = c.smm_texts_main
    /\ r_smm' = c.r_smm
    /\ i_sb' = c.i_sb

\* for r in range(3,5) / for r_smm in range(7,10) / for i_sb in range(1,5):
\* the next iteration, or the statement after the loop
NextTesorosPerlas(c) ==
    IF c.r + 1 > 4 THEN [c EXCEPT !.pc = "lectura"] ELSE [c EXCEPT !.r = @ + 1]

NextSmm(c) ==
    IF c.r_smm + 1 > 9 THEN [c EXCEPT !.pc = "nvc1"] ELSE [c EXCEPT !.r_smm = @ + 1]

NextSmmSalaB(c) ==
    IF c.i_sb + 1 > 4 THEN [c EXCEPT !.pc = "save"] ELSE [c EXCEPT !.i_sb = @ + 1]

\* Where main_assignment goes on once the slot at c.pc, of part pk, is
\* resolved (committed, skipped, or left without candidates).
Leave(c, pk) ==
    CASE c.pc = "presidencia" ->
            [c EXCEPT !.pc = "tesoros_perlas", !.r = 3,
                      !.tesoros_found = FALSE, !.perlas_found = FALSE]
      [] c.pc = "tesoros_perlas" ->
            NextTesorosPerlas([c EXCEPT !.tesoros_found = (@ \/ pk = "Tesoros"),
                                        !.perlas_found = (@ \/ pk = "Perlas")])
      [] c.pc = "lectura" ->
            [c EXCEPT !.pc = "smm", !.smm_index = 1, !.smm_texts_main = NoTexts,
                      !.r_smm = 7]
      [] c.pc = "smm" -> NextSmm([c EXCEPT !.smm_index = @ + 1])
      [] c.pc = "nvc1" -> [c EXCEPT !.pc = "nvc2"]
      [] c.pc = "nvc2" -> [c EXCEPT !.pc = "ebc"]
      [] c.pc = "ebc" -> [c EXCEPT !.pc = "lector_ebc"]
      [] c.pc = "lector_ebc" -> [c EXCEPT !.pc = "oracion"]
      [] c.pc = "oracion" -> [c EXCEPT !.pc = "sala_b"]
      [] c.pc = "lectura_sala_b" -> [c EXCEPT !.pc = "smm_sala_b", !.i_sb = 1]
      [] c.pc = "smm_sala_b" -> NextSmmSalaB(c)

\* The locals of a resolved slot (cand_*, chosen_*) are not read again.
ClearSlot ==
    /\ part_key' = ""
    /\ part_label' = ""
    /\ top_n' = 0
    /\ required_g' = ""
    /\ cand' = <<>>

\* A prompt issued whether or not there is a candidate.
prompt_always(c, pk, label, n, g, top) ==
    /\ SetControl(c)
    /\ phase' = "pick"
    /\ part_key' = pk
    /\ part_label' = label
    /\ top_n' = n
    /\ required_g' = g
    /\ cand' = top

\* pick_candidate_interactively up to its prompt: with no candidate it
\* returns None at once and the slot is left.
Prompt(c, pk, label, n, g, top) ==
    IF top = <<>>
    THEN /\ SetControl(Leave(c, pk))
         /\ phase' = "begin"
         /\ ClearSlot
    ELSE /\ SetControl(c)
         /\ phase' = "pick"
         /\ part_key' = pk
         /\ part_label' = label
         /\ top_n' = n
         /\ required_g' = g
         /\ cand' = top

\* get_top_candidates followed by pick_candidate_interactively
Slot(c, pk, label, n, g) ==
    Prompt(c, pk, label, n, g,
           get_top_candidates(df_people, df_history, pk, mtg_date, assigned_today, n, g))

\* up to the prompt of ask_gender_or_skip
AskGender(c, subpart, label) ==
    /\ SetControl(c)
    /\ phase' = "gender"
    /\ part_key' = subpart
    /\ part_label' = label
    /\ top_n' = 5
    /\ required_g' = ""
    /\ cand' = <<>>

\* no slot here: on to the next statement
Pass(c) ==
    /\ SetControl(c)
    /\ phase' = "begin"
    /\ UNCHANGED slot

results == <<df_history, assigned_today, df_final, n_appends>>
stores == <<saved_history, final_xlsx>>
rest == <<data, query, stores, col_i, mtg_date>>

\* mtg_date = parse_date_str(col); if not mtg_date: continue
Enter(parsed) ==
    /\ mtg_date' = parsed
    /\ IF parsed = None
       THEN col_i' = col_i + 1 /\ UNCHANGED <<pc, assigned_today>>
       ELSE pc' = "presidencia" /\ assigned_today' = {} /\ UNCHANGED col_i

StartDate ==
    /\ pc = "date"
    /\ col_i <= Len(date_cols)
    /\ Enter(parse_date_str(Col.header))
    /\ UNCHANGED <<data, query, stores, df_history, df_final, n_appends, phase, r,
                   tesoros_found, perlas_found, smm_index, smm_texts_main, r_smm,
                   i_sb, is_lec, slot>>

BeginPresidencia ==
    /\ pc = "presidencia" /\ phase = "begin"
    /\ Slot(Ctl, "Presidencia", "PRESIDENCIA", 3, "")
    /\ UNCHANGED <<rest, results, is_lec>>

\* if part=="Tesoros" and not tesoros_found / elif part=="Perlas" and not
\* perlas_found: the slot of the part, else the next row
TesorosPerlas(part) ==
    IF (part = "Tesoros" /\ ~tesoros_found) \/ (part = "Perlas" /\ ~perlas_found)
    THEN Slot(Ctl, part, IF part = "Tesoros" THEN "TESOROS" ELSE "PERLAS", 3, "")
    ELSE Pass(NextTesorosPerlas(Ctl))

BeginTesorosPerlas ==
    /\ pc = "tesoros_perlas" /\ phase = "begin"
    /\ TesorosPerlas(identify_tesoros_perlas(Col, r))
    /\ UNCHANGED <<rest, results, is_lec>>

Lectura(found) ==
    /\ is_lec' = found
    /\ IF found THEN Slot(Ctl, "Lectura", "LECTURA", 3, "V") ELSE Pass(Leave(Ctl, ""))

BeginLectura ==
    /\ pc = "lectura" /\ phase = "begin"
    /\ Lectura(identify_lectura(Col, 5))
    /\ UNCHANGED <<rest, results>>

\* An SMM title: Discurso is for a brother, the other sub-parts ask.
SmmPart(c, subpart, label) ==
    IF subpart \in {"Discurso", "Discurso Sala B"}
    THEN Slot(c, subpart, label, 5, "V")
    ELSE AskGender(c, subpart, label)

\* An SMM loop whose index counts the rows that hold a title.
smm_counting_titles(smm_text) ==
    IF smm_text = ""
    THEN Pass(NextSmm(Ctl))
    ELSE SmmPart([Ctl EXCEPT !.smm_texts_main[smm_index] = smm_text],
                 SmmSubpart(smm_text), SmmLabel(smm_index))

\* smm_texts_main[smm_index-1] = smm_text if has_smm else None; if has_smm: ...
Smm(smm_text) ==
    IF smm_text = ""
    THEN Pass(Leave([Ctl EXCEPT !.smm_texts_main[smm_index] = smm_text], ""))
    ELSE SmmPart([Ctl EXCEPT !.smm_texts_main[smm_index] = smm_text],
                 SmmSubpart(smm_text), SmmLabel(smm_index))

BeginSmm ==
    /\ pc = "smm" /\ phase = "begin"
    /\ IF smm_index > 4
       THEN Pass([Ctl EXCEPT !.pc = "nvc1"])
       ELSE Smm(identify_smm(Col, r_smm))
    /\ UNCHANGED <<rest, results, is_lec>>

\* if len(other_nvc)>k-1: the slot of its k-th entry
Nvc(others, k, label) ==
    IF Len(others) > k - 1
    THEN Slot(Ctl, IF others[k] = "NVC" THEN "NVC" ELSE "Necesidades", label, 3, "")
    ELSE Pass(Leave(Ctl, ""))

\* NVC1, NVC2: part1 / part2 of the first and second entry of other_nvc
BeginNvc(at, k, label) ==
    /\ pc = at /\ phase = "begin"
    /\ Nvc(other_nvc(Col), k, label)
    /\ UNCHANGED <<rest, results, is_lec>>

BeginNvc1 == BeginNvc("nvc1", 1, "NVC1")

BeginNvc2 == BeginNvc("nvc2", 2, "NVC2")

BeginEbc ==
    /\ pc = "ebc" /\ phase = "begin"
    /\ IF Len(ebc_ent(Col)) > 0
       THEN Slot(Ctl, "EBC", "EBC", 3, "")
       ELSE Pass(Leave(Ctl, ""))
    /\ UNCHANGED <<rest, results, is_lec>>

BeginLectorEbc ==
    /\ pc = "lector_ebc" /\ phase = "begin"
    /\ Slot(Ctl, "Lector EBC", "LECTOR EBC", 3, "")
    /\ UNCHANGED <<rest, results, is_lec>>

BeginOracion ==
    /\ pc = "oracion" /\ phase = "begin"
    /\ Slot(Ctl, "Oraciones", "ORACION", 3, "")
    /\ UNCHANGED <<rest, results, is_lec>>

\* A Sala B question whose every answer is taken as yes.
sala_b_always(typed) ==
    /\ pc = "sala_b" /\ phase = "begin"
    /\ Pass([Ctl EXCEPT !.pc = "lectura_sala_b"])
    /\ UNCHANGED <<rest, results, is_lec>>

\* input("Is there SALA B for this week? [Y/N]: "): any answer is taken
AnswerSalaB(typed) ==
    /\ pc = "sala_b" /\ phase = "begin"
    /\ IF Lower(Strip(typed)) = "y"
       THEN Pass([Ctl EXCEPT !.pc = "lectura_sala_b"])
       ELSE Pass([Ctl EXCEPT !.pc = "save"])
    /\ UNCHANGED <<rest, results, is_lec>>

BeginLecturaSalaB ==
    /\ pc = "lectura_sala_b" /\ phase = "begin"
    /\ IF is_lec
       THEN Slot(Ctl, "Lectura Sala B", "LECTURA Sala B", 3, "V")
       ELSE Pass(Leave(Ctl, ""))
    /\ UNCHANGED <<rest, results, is_lec>>

BeginSmmSalaB ==
    /\ pc = "smm_sala_b" /\ phase = "begin"
    /\ IF smm_texts_main[i_sb] = ""
       THEN Pass(NextSmmSalaB(Ctl))
       ELSE SmmPart(Ctl, SmmSubpart(smm_texts_main[i_sb]) \o " Sala B",
                    SmmLabel(i_sb) \o " Sala B")
    /\ UNCHANGED <<rest, results, is_lec>>

\* A gender question whose skip still ranks the slot, for any gender.
gender_skip_ranks(ans) ==
    IF ans = "invalid" THEN UNCHANGED <<control, phase, slot, last_ans>>
    ELSE /\ last_ans' = ans
         /\ Slot(Ctl, part_key, part_label, 5, RequiredGenderFor(part_key, ans))

Gender(ans) ==
    IF ans = "invalid" THEN UNCHANGED <<control, phase, slot, last_ans>>
    ELSE /\ last_ans' = ans
         /\ IF ans = "skip"
            THEN SetControl(Leave(Ctl, part_key)) /\ phase' = "begin" /\ ClearSlot
            ELSE Slot(Ctl, part_key, part_label, 5, RequiredGenderFor(part_key, ans))

\* An answer to ask_gender_or_skip: skip leaves the slot, V or M ranks
\* it, anything else repeats the prompt.
AnswerGender(typed) ==
    /\ phase = "gender"
    /\ Gender(ask_gender_or_skip(typed))
    /\ UNCHANGED <<data, q_name, last_date, n_calls, evals, answer, picked, rec_smm,
                   stores, col_i, mtg_date, results, is_lec>>

\* A commit that records the eligibility column of the part.
commit_column(chosen) ==
    /\ df_final' = [df_final EXCEPT ![part_label][Col.header] = chosen]
    /\ assigned_today' = assigned_today \cup {chosen}
    /\ df_history' = add_history(df_history, chosen,
                                 get_people_column_for_part(part_key), mtg_date)
    /\ n_appends' = n_appends + 1

\* A commit that writes the cell and leaves the ledger as it is.
commit_cell_only(chosen) ==
    /\ df_final' = [df_final EXCEPT ![part_label][Col.header] = chosen]
    /\ assigned_today' = assigned_today \cup {chosen}
    /\ UNCHANGED <<df_history, n_appends>>

\* if chosen: df_final.at[label, col] = chosen; assigned_today.add(chosen);
\* df_history = add_history(df_history, chosen, part_key, mtg_date)
Commit(chosen) ==
    /\ df_final' = [df_final EXCEPT ![part_label][Col.header] = chosen]
    /\ assigned_today' = assigned_today \cup {chosen}
    /\ df_history' = add_history(df_history, chosen, part_key, mtg_date)
    /\ n_appends' = n_appends + 1

\* An answer loop in which skip takes the first candidate.
pick_first_on_skip(choice) ==
    IF choice = "invalid" THEN UNCHANGED <<control, phase, slot, results>>
    ELSE /\ SetControl(Leave(Ctl, part_key)) /\ phase' = "begin" /\ ClearSlot
         /\ Commit(df_people.rows[cand[IF choice = "skip" THEN 1 ELSE ToInt(choice)][1]]["Hermano"])

Pick(choice) ==
    IF choice = "invalid" THEN UNCHANGED <<control, phase, slot, results>>
    ELSE /\ SetControl(Leave(Ctl, part_key)) /\ phase' = "begin" /\ ClearSlot
         /\ IF choice = "skip" THEN UNCHANGED results
            ELSE Commit(df_people.rows[cand[ToInt(choice)][1]]["Hermano"])

\* An answer to the prompt of pick_candidate_interactively, and, when a
\* name comes back, the commit of main_assignment.
AnswerPick(typed) ==
    /\ phase = "pick"
    /\ Pick(PickChoice(typed, Min(top_n, Len(cand))))
    /\ UNCHANGED <<rest, is_lec>>

\* The next column taken without saving.
next_date_unsaved ==
    /\ pc = "save"
    /\ pc' = "date"
    /\ col_i' = col_i + 1
    /\ UNCHANGED <<data, query, stores, mtg_date, results, is_lec, phase, slot, r,
                   tesoros_found, perlas_found, smm_index, smm_texts_main, r_smm, i_sb>>

\* save_people_data after the slots of the date, then the next column
SaveDate ==
    /\ pc = "save"
    /\ saved_history' = df_history
    /\ pc' = "date"
    /\ col_i' = col_i + 1
    /\ UNCHANGED <<data, query, final_xlsx, mtg_date, results, is_lec, phase, slot, r,
                   tesoros_found, perlas_found, smm_index, smm_texts_main, r_smm, i_sb>>

\* A run that ends without writing the output table.
finish_without_output ==
    /\ pc = "date"
    /\ col_i > Len(date_cols)
    /\ pc' = "done"
    /\ UNCHANGED <<data, query, stores, col_i, mtg_date, results, is_lec, phase,
                   slot, r, tesoros_found, perlas_found, smm_index, smm_texts_main,
                   r_smm, i_sb>>

\* df_final.to_excel("final_assignments.xlsx") after the last column
Finish ==
    /\ pc = "date"
    /\ col_i > Len(date_cols)
    /\ final_xlsx' = df_final
    /\ pc' = "done"
    /\ UNCHANGED <<data, query, saved_history, col_i, mtg_date, results, is_lec, phase,
                   slot, r, tesoros_found, perlas_found, smm_index, smm_texts_main,
                   r_smm, i_sb>>

Init ==
    /\ \E run \in MainRuns : df_people = run[1] /\ weekly_df = run[2]
    /\ date_cols = get_date_columns(weekly_df)
    /\ df_history \in MainLedgers
    /\ pc = "date" /\ phase = "begin" /\ col_i = 1 /\ mtg_date = None
    /\ assigned_today = {}
    /\ df_final = EmptyFinal(weekly_df)
    /\ r = 0 /\ tesoros_found = FALSE /\ perlas_found = FALSE /\ is_lec = FALSE
    /\ smm_index = 0 /\ smm_texts_main = NoTexts /\ r_smm = 0 /\ i_sb = 0
    /\ part_key = "" /\ part_label = "" /\ top_n = 0 /\ required_g = "" /\ cand = <<>>
    /\ saved_history = df_history
    /\ final_xlsx = <<>>
    /\ history0 = df_history
    /\ n_appends = 0
    /\ n_calls = 0 /\ q_name = "" /\ last_date = None /\ evals = <<>>
    /\ answer = "" /\ picked = "" /\ last_ans = "" /\ rec_smm = <<>>

Next ==
    \/ StartDate
    \/ BeginPresidencia
    \/ BeginTesorosPerlas
    \/ BeginLectura
    \/ BeginSmm
    \/ BeginNvc1
    \/ BeginNvc2
    \/ BeginEbc
    \/ BeginLectorEbc
    \/ BeginOracion
    \/ \E typed \in SalaBAnswers : AnswerSalaB(typed)
    \/ BeginLecturaSalaB
    \/ BeginSmmSalaB
    \/ \E typed \in GenderAnswers : AnswerGender(typed)
    \/ \E typed \in PickAnswers : AnswerPick(typed)
    \/ SaveDate
    \/ Finish

Spec == Init /\ [][Next]_vars

(***************************************************************************)
(* The ledger on its own: add_history and get_last_assignment_date called  *)
(* on ledgers as they are loaded from people_data.xlsx (dates typed by     *)
(* hand in any of the three formats, a blank or a mistyped date) and       *)
(* grown by add_history.                                                   *)
(***************************************************************************)

MaxAppends == 2

LedgerNames == {"Carlos", "Ana"}

LedgerParts == {"Discurso", "Haga Revisitas", "Lectura Sala B", "Estudiante"}

LedgerDates == {Date(2024, 1, 25), Date(2024, 2, 3)}

QueryKeys ==
    {"Discurso", "Haga Revisitas Sala B", "Lectura", "Lectura Sala B",
     "Estudiante", "Estudiante Sala B"}

LoadedLedgers ==
    { <<>>,
      << HistoryRow("Carlos", "Discurso", "25/01/2024") >>,
      << HistoryRow("Carlos", "Lectura Sala B", "31/02/2024"),
         HistoryRow("Carlos", "Lectura", "10/01/2024") >>,
      << HistoryRow("Ana", "Estudiante", "2024-01-16"),
         HistoryRow("Carlos", "Discurso", NaN),
         HistoryRow("Ana", "Explique sus creencias", "01/20/2024") >> }

\* main_assignment is not running
NoRun ==
    /\ df_people = SmallRoster /\ weekly_df = <<>> /\ date_cols = <<>>
    /\ pc = "none" /\ phase = "none" /\ col_i = 0 /\ mtg_date = None
    /\ assigned_today = {} /\ df_final = <<>>
    /\ r = 0 /\ tesoros_found = FALSE /\ perlas_found = FALSE /\ is_lec = FALSE
    /\ smm_index = 0 /\ smm_texts_main = NoTexts /\ r_smm = 0 /\ i_sb = 0
    /\ part_label = "" /\ top_n = 0 /\ required_g = "" /\ cand = <<>>
    /\ saved_history = <<>> /\ final_xlsx = <<>> /\ n_calls = 0 /\ evals = <<>>
    /\ answer = "" /\ picked = "" /\ last_ans = "" /\ rec_smm = <<>>

run_vars ==
    <<df_people, weekly_df, date_cols, pc, phase, col_i, mtg_date, assigned_today,
      df_final, r, tesoros_found, perlas_found, is_lec, smm_index, smm_texts_main,
      r_smm, i_sb, part_label, top_n, required_g, cand, saved_history, final_xlsx,
      n_calls, evals, pick_io>>

InitLedger ==
    /\ NoRun
    /\ df_history \in LoadedLedgers
    /\ history0 = df_history
    /\ n_appends = 0
    /\ q_name = "" /\ part_key = "" /\ last_date = None

\* df_history = add_history(df_history, name, part, date)
AddHistory(hermano_name, part, date) ==
    /\ n_appends < MaxAppends
    /\ df_history' = add_history(df_history, hermano_name, part, date)
    /\ n_appends' = n_appends + 1
    /\ q_name' = "" /\ part_key' = "" /\ last_date' = None
    /\ UNCHANGED <<run_vars, history0>>

\* last_date = get_last_assignment_date(df_history, person_name, key)
GetLastAssignmentDate(person_name, key) ==
    /\ q_name' = person_name
    /\ part_key' = key
    /\ last_date' = get_last_assignment_date(df_history, person_name, key)
    /\ UNCHANGED <<run_vars, df_history, history0, n_appends>>

NextLedger ==
    \/ \E part \in LedgerParts, date \in LedgerDates : AddHistory("Carlos", part, date)
    \/ \E person_name \in LedgerNames, key \in QueryKeys :
            GetLastAssignmentDate(person_name, key)

SpecLedger == InitLedger /\ [][NextLedger]_vars

(***************************************************************************)
(* Properties of the last-date lookup.                                     *)
(***************************************************************************)

\* The records a lookup under key reads: the SMM sub-parts together, the two
\* Lectura keys together, any other key by itself.
InGroup(part, key) ==
    IF strip_sala_b_suffix(key) \in SMM_SUBPARTS
    THEN strip_sala_b_suffix(part) \in SMM_SUBPARTS
    ELSE IF strip_sala_b_suffix(key) = "Lectura"
    THEN strip_sala_b_suffix(part) = "Lectura"
    ELSE part = key

GroupRecords(history, person_name, key) ==
    SelectSeq(history, LAMBDA row : row.Name = person_name /\ InGroup(row.Part, key))

Parses(row) == parse_date_str(row.AssignmentDate) # None

ParsedDates(rows) ==
    { parse_date_str(rows[i].AssignmentDate) : i \in 1..Len(rows) } \ {None}

\* the chronological maximum, the sentinel when there is no date
Latest(dates) ==
    IF dates = {} THEN Sentinel
    ELSE CHOOSE d \in dates : \A e \in dates : ToOrdinal(e) <= ToOrdinal(d)

\* C4: the date a lookup returns is the chronologically latest date among
\* the person's records of the key's group, and 1900-01-01 when there is
\* none (stated for ledgers whose records of the group all parse).
C4_LastDateIsChronologicalMax ==
    (q_name # "" /\ \A i \in 1..Len(df_history) :
                        (df_history[i].Name = q_name /\ InGroup(df_history[i].Part, part_key))
                            => Parses(df_history[i]))
        => last_date = Latest(ParsedDates(GroupRecords(df_history, q_name, part_key)))

\* C5: an add_history never lowers the date a lookup returns, for any person
\* and any key.
C5_LastDateNeverDecreases ==
    [][n_appends' = n_appends + 1 =>
         \A person_name \in LedgerNames, key \in QueryKeys :
             ToOrdinal(get_last_assignment_date(df_history', person_name, key))
                 >= ToOrdinal(get_last_assignment_date(df_history, person_name, key))]_vars

GroupKeys ==
    SMM_SUBPARTS \cup { sub \o " Sala B" : sub \in SMM_SUBPARTS }
        \cup {"Lectura", "Lectura Sala B"}

LastDates(history, person_name) ==
    [key \in GroupKeys |-> get_last_assignment_date(history, person_name, key)]

SameDeclaredGroup(r1, r2) ==
    /\ r1 \in GroupKeys /\ r2 \in GroupKeys
    /\ (strip_sala_b_suffix(r1) = "Lectura") <=> (strip_sala_b_suffix(r2) = "Lectura")

\* C6: once a record (p, r1, date) has been appended, the lookups for p under
\* r1 and under any r2 of the same declared group (the five SMM sub-parts,
\* Lectura and Lectura Sala B, with or without " Sala B") return the same date.
C6_SameGroupSameDate ==
    n_appends >= 1 =>
        \A r2 \in GroupKeys :
            SameDeclaredGroup(df_history[Len(df_history)].Part, r2) =>
                LastDates(df_history, df_history[Len(df_history)].Name)[r2]
                  = LastDates(df_history, df_history[Len(df_history)].Name)
                        [df_history[Len(df_history)].Part]

\* C6 witness: Carlos was given "Discurso" on 03/02/2024 and the lookup under
\* "Haga Revisitas Sala B" returned that date.
C6_Witness ==
    /\ n_appends >= 1
    /\ df_history[Len(df_history)] = HistoryRow("Carlos", "Discurso", "03/02/2024")
    /\ q_name = "Carlos" /\ part_key = "Haga Revisitas Sala B"
    /\ last_date = Date(2024, 2, 3)

\* C7: for every key, in or out of the declared groups, the lookup under the
\* key with " Sala B" returns what the lookup under the key without it returns.
C7_SalaBStrippedForEveryKey ==
    \A person_name \in LedgerNames, key \in {"Discurso", "Lectura", "Estudiante"} :
        get_last_assignment_date(df_history, person_name, key \o " Sala B")
          = get_last_assignment_date(df_history, person_name, key)

\* C8: a record whose date cannot be parsed is ignored: the lookup returns
\* what it returns on the ledger without the unparseable records.
C8_UnparseableRecordIgnored ==
    q_name # "" =>
        last_date = get_last_assignment_date(SelectSeq(df_history, Parses), q_name, part_key)

(***************************************************************************)
(* The ranking on its own: get_top_candidates called on rosters, ledgers,  *)
(* keys, exclusion sets, list lengths and genders, twice in a row, and one *)
(* of the returned names committed as main_assignment commits it.          *)
(***************************************************************************)

MaxCalls == 2

\* Five active people of whom one has a blank "Estudiante Mod" cell, and one
\* inactive person; three of them have never been assigned.
RankRoster ==
    Roster(<< Row("Ana", "YES", "M", Flags({"Estudiante"}, {"Presidencia"}),
                  [c \in {"Estudiante Mod"} |-> One]),
              Row("Beto", "YES", "V", Flags({"Estudiante", "Presidencia"}, {}),
                  [c \in {"Estudiante Mod"} |-> FloatNaN]),
              Row("Carlos", "YES", "V", Flags({"Estudiante", "Presidencia"}, {}),
                  [c \in {"Estudiante Mod"} |-> One]),
              Row("Dora", "NO", "M", Flags({"Estudiante", "Presidencia"}, {}),
                  [c \in {"Estudiante Mod"} |-> One]),
              Row("Eva", "yes", "M", Flags({"Estudiante"}, {"Presidencia"}),
                  [c \in {"Estudiante Mod"} |-> One]),
              Row("Fran", "YES", "v", Flags({"Estudiante", "Presidencia"}, {}),
                  [c \in {"Estudiante Mod"} |-> One]) >>)

\* Five people whose "Estudiante Mod" cells hold 0.5, 1.0, 0, -1.0 and a blank.
ScoreRoster ==
    Roster(<< Row("Ana", "YES", "M", Flags({"Estudiante"}, {}),
                  [c \in {"Estudiante Mod"} |-> Float(1)]),
              Row("Beto", "YES", "V", Flags({"Estudiante"}, {}),
                  [c \in {"Estudiante Mod"} |-> One]),
              Row("Carlos", "YES", "V", Flags({"Estudiante"}, {}),
                  [c \in {"Estudiante Mod"} |-> Float(0)]),
              Row("Dora", "YES", "M", Flags({"Estudiante"}, {}),
                  [c \in {"Estudiante Mod"} |-> Float(-2)]),
              Row("Eva", "YES", "M", Flags({"Estudiante"}, {}),
                  [c \in {"Estudiante Mod"} |-> FloatNaN]) >>)

RankRosters == {SmallRoster, RankRoster, ScoreRoster}

RankLedgers ==
    { <<>>,
      << HistoryRow("Beto", "Discurso", "2024-01-16"),
         HistoryRow("Ana", "Discurso", "23/01/2024"),
         HistoryRow("Fran", "Presidencia", "09/01/2024") >> }

RankKeys ==
    { "Discurso", "Estudiante Sala B", "Presidencia", "Lectura Sala B",
      "Haga discipulos Sala B", "Limpieza Sala B" }

RankExclusions == { {}, {"Ana"}, {"Beto", "Carlos"} }

RankLengths == {1, 3, 5}

\* required_gender as the callers pass it: None, "V" or "M"
RankGenders == {"", "V", "M"}

InitRank ==
    /\ df_people \in RankRosters
    /\ df_history \in RankLedgers
    /\ part_key \in RankKeys
    /\ mtg_date = Date(2024, 1, 30)
    /\ assigned_today \in RankExclusions
    /\ top_n \in RankLengths
    /\ required_g \in RankGenders
    /\ cand = <<>> /\ n_calls = 0
    /\ history0 = df_history /\ n_appends = 0
    /\ weekly_df = <<>> /\ date_cols = <<>> /\ pc = "none" /\ phase = "none"
    /\ col_i = 0 /\ df_final = <<>>
    /\ r = 0 /\ tesoros_found = FALSE /\ perlas_found = FALSE /\ is_lec = FALSE
    /\ smm_index = 0 /\ smm_texts_main = NoTexts /\ r_smm = 0 /\ i_sb = 0
    /\ part_label = "" /\ saved_history = <<>> /\ final_xlsx = <<>>
    /\ q_name = "" /\ last_date = None /\ evals = <<>>
    /\ answer = "" /\ picked = "" /\ last_ans = "" /\ rec_smm = <<>>

rank_rest ==
    <<weekly_df, date_cols, pc, phase, col_i, df_final, r, tesoros_found,
      perlas_found, is_lec, smm_index, smm_texts_main, r_smm, i_sb, part_label,
      saved_history, final_xlsx, q_name, last_date, evals, pick_io, history0>>

rank_inputs == <<df_people, part_key, mtg_date, top_n, required_g>>

\* cand = get_top_candidates(df_people, df_history, part_key, mtg_date,
\*                           assigned_today, top_n, required_g)
RankCall ==
    /\ n_calls < MaxCalls
    /\ cand' = get_top_candidates(df_people, df_history, part_key, mtg_date,
                                  assigned_today, top_n, required_g)
    /\ df_history' = after_lookups(df_history)
    /\ n_calls' = n_calls + 1
    /\ UNCHANGED <<rank_inputs, rank_rest, assigned_today, n_appends>>

\* One of the returned people is chosen: the name joins assigned_today and
\* add_history records it.
CommitChosen(k) ==
    /\ n_calls >= 1
    /\ n_appends < MaxAppends
    /\ k \in 1..Len(cand)
    /\ assigned_today' = assigned_today \cup {df_people.rows[cand[k][1]]["Hermano"]}
    /\ df_history' = add_history(df_history, df_people.rows[cand[k][1]]["Hermano"],
                                 part_key, mtg_date)
    /\ n_appends' = n_appends + 1
    /\ cand' = <<>> /\ n_calls' = 0
    /\ UNCHANGED <<rank_inputs, rank_rest>>

NextRank ==
    \/ RankCall
    \/ \E k \in 1..Len(cand) : CommitChosen(k)

SpecRank == InitRank /\ [][NextRank]_vars

(***************************************************************************)
(* Properties of the ranking and of the run.                               *)
(***************************************************************************)

CandidateRow(k) == df_people.rows[cand[k][1]]

\* the names written in the column of the date being assigned
WrittenToday ==
    { df_final[label][Col.header] : label \in DOMAIN df_final } \ {NaN}

\* C1: in every state of main_assignment no name stands in two rows of one
\* date column of df_final, and the candidates offered for a slot include
\* no name already written for that date.
C1_SameDayExclusivity ==
    /\ \A l1 \in DOMAIN df_final, l2 \in DOMAIN df_final :
         \A h \in DOMAIN df_final[l1] :
            (l1 # l2 /\ df_final[l1][h] # NaN) => df_final[l1][h] # df_final[l2][h]
    /\ phase = "pick" =>
         \A k \in 1..Len(cand) :
            /\ CandidateRow(k)["Hermano"] \notin assigned_today
            /\ CandidateRow(k)["Hermano"] \notin WrittenToday

\* C1 witness: candidates are on offer for a slot while a person already
\* written for the date passes every other test of the filter for that slot.
C1_Witness ==
    /\ phase = "pick"
    /\ WrittenToday # {}
    /\ \E i \in 1..Len(df_people.rows) :
          /\ df_people.rows[i]["Hermano"] \in WrittenToday
          /\ keeps_assigned(df_people.rows[i], get_people_column_for_part(part_key),
                            assigned_today, required_g)

\* C2: the list get_top_candidates returns holds no person whose "Activo?"
\* is not YES, no person of the exclusion set and, when a gender is
\* required, no person of another gender.
C2_FilterRespected ==
    n_calls >= 1 =>
        \A k \in 1..Len(cand) :
            /\ Upper(CandidateRow(k)["Activo?"]) = "YES"
            /\ CandidateRow(k)["Hermano"] \notin assigned_today
            /\ required_g # "" => Upper(CandidateRow(k)["Genero"]) = required_g

\* C2 witness: a list was returned under a required gender and a non-empty
\* exclusion set while an inactive person passes every other test.
C2_Witness ==
    /\ n_calls >= 1 /\ cand # <<>> /\ required_g # "" /\ assigned_today # {}
    /\ \E i \in 1..Len(df_people.rows) :
          /\ Upper(df_people.rows[i]["Activo?"]) # "YES"
          /\ keeps_inactive(df_people.rows[i], get_people_column_for_part(part_key),
                            assigned_today, required_g)

\* C3: the ledger only grows at its end: after N add_history calls it holds
\* the initial records, unchanged and in order, followed by N records, and
\* every step, a ranking with its sorting lookups included, either leaves
\* the ledger as it is or adds one record after all the others.
C3_LedgerAppendOnly ==
    /\ [](/\ Len(df_history) = Len(history0) + n_appends
          /\ SubSeq(df_history, 1, Len(history0)) = history0)
    /\ [][\/ df_history' = df_history
          \/ /\ Len(df_history') = Len(df_history) + 1
             /\ SubSeq(df_history', 1, Len(df_history)) = df_history]_vars

\* C3 witness: two records were added to a ledger that had records not in
\* sorted order, and a ranking has run since.
C3_Witness ==
    /\ n_appends = 2 /\ n_calls >= 1
    /\ history0 # <<>> /\ sort_values_desc(history0) # history0

\* C9: the returned list has at most top_n entries, no entry stands before
\* an entry of higher score, and entries of equal score stand in roster order.
C9_SortedDescendingStable ==
    n_calls >= 1 =>
        /\ Len(cand) <= top_n
        /\ \A i \in 1..Len(cand), j \in 1..Len(cand) :
              i < j =>
                /\ ~FloatLT(cand[i][2], cand[j][2])
                /\ cand[i][2] = cand[j][2] => cand[i][1] < cand[j][1]

MaxEvals == 2

ScoreRosters == {SmallRoster, ScoreRoster}

ScoreLedgers ==
    { <<>>,
      << HistoryRow("Ana", "Discurso", "16/01/2024"),
         HistoryRow("Beto", "Haga Revisitas Sala B", "2024-01-23"),
         HistoryRow("Dora", "Discurso", "16/01/2024") >> }

ScoreKeys == {"Discurso", "Presidencia"}

ScoreDates == {Date(2024, 1, 9), Date(2024, 1, 30), Date(2024, 2, 6)}

Eval(idx, meeting_date, result) ==
    [idx |-> idx, date |-> meeting_date, score |-> result[1], last_date |-> result[2]]

InitScore ==
    /\ df_people \in ScoreRosters
    /\ df_history \in ScoreLedgers
    /\ part_key \in ScoreKeys
    /\ evals = <<>>
    /\ history0 = df_history /\ n_appends = 0
    /\ mtg_date = None /\ assigned_today = {} /\ top_n = 0 /\ required_g = ""
    /\ cand = <<>> /\ n_calls = 0
    /\ weekly_df = <<>> /\ date_cols = <<>> /\ pc = "none" /\ phase = "none"
    /\ col_i = 0 /\ df_final = <<>>
    /\ r = 0 /\ tesoros_found = FALSE /\ perlas_found = FALSE /\ is_lec = FALSE
    /\ smm_index = 0 /\ smm_texts_main = NoTexts /\ r_smm = 0 /\ i_sb = 0
    /\ part_label = "" /\ saved_history = <<>> /\ final_xlsx = <<>>
    /\ q_name = "" /\ last_date = None
    /\ answer = "" /\ picked = "" /\ last_ans = "" /\ rec_smm = <<>>

\* sc, ldate = compute_score_and_lastdate(df_people, df_history, idx, part_key, meeting_date)
ComputeScore(idx, meeting_date) ==
    /\ Len(evals) < MaxEvals
    /\ evals' = Append(evals, Eval(idx, meeting_date,
                    compute_score_and_lastdate(df_people, df_history, idx, part_key,
                                               meeting_date)))
    /\ UNCHANGED <<df_people, df_history, part_key, history0, n_appends, mtg_date,
                   assigned_today, top_n, required_g, cand, n_calls, weekly_df,
                   date_cols, pc, phase, col_i, df_final, r, tesoros_found,
                   perlas_found, is_lec, smm_index, smm_texts_main, r_smm, i_sb,
                   part_label, saved_history, final_xlsx, q_name, last_date, pick_io>>

NextScore ==
    \E idx \in 1..Len(df_people.rows), meeting_date \in ScoreDates :
        ComputeScore(idx, meeting_date)

SpecScore == InitScore /\ [][NextScore]_vars

\* a >= b on floats: False when either is NaN
FloatGE(a, b) == ~a.nan /\ ~b.nan /\ a.v >= b.v

\* the modifier compute_score_and_lastdate reads for a person under the key at hand
ModifierOf(idx) == ModVal(df_people, idx, get_people_column_for_part(part_key) \o " Mod")

\* C11 as stated: for every person and key, and every modifier the roster
\* holds, the score at a later date is at least the score at an earlier date.
C11_ScoreMonotonicAnyModifier ==
    \A i \in 1..Len(evals), j \in 1..Len(evals) :
        (evals[i].idx = evals[j].idx /\ ToOrdinal(evals[i].date) < ToOrdinal(evals[j].date))
            => FloatGE(evals[j].score, evals[i].score)

\* C11 amended: for every person whose modifier is a number that is not
\* negative, the score at a later date is at least the score at an earlier
\* date (the ledger being the same at both).
C11_ScoreMonotonicNonNegativeModifier ==
    \A i \in 1..Len(evals), j \in 1..Len(evals) :
        (/\ evals[i].idx = evals[j].idx
         /\ ToOrdinal(evals[i].date) < ToOrdinal(evals[j].date)
         /\ ~ModifierOf(evals[i].idx).nan
         /\ ModifierOf(evals[i].idx).v >= 0)
            => FloatGE(evals[j].score, evals[i].score)

\* C11 witness: a person with modifier 0.5 and a record in the ledger was
\* scored at two dates and the later score is the higher one.
C11_Witness ==
    /\ Len(evals) = 2
    /\ evals[1].idx = evals[2].idx
    /\ ToOrdinal(evals[1].date) < ToOrdinal(evals[2].date)
    /\ ModifierOf(evals[1].idx) = Float(1)
    /\ evals[1].last_date # Sentinel
    /\ FloatLT(evals[1].score, evals[2].score)

\* the people get_top_candidates keeps for the arguments at hand
ValidNow == valid_idx(df_people, part_key, assigned_today, required_g)

NeverAssigned(idx) ==
    get_last_assignment_date(df_history, df_people.rows[idx]["Hermano"], part_key) = Sentinel

\* C12 as stated: whatever the modifiers, every kept person without a last
\* date stands in the returned list before every person who has one.
C12_NeverAssignedFirst ==
    n_calls >= 1 =>
        \A k \in 1..Len(cand) :
            cand[k][3] # Sentinel =>
                \A m \in 1..Len(ValidNow) :
                    NeverAssigned(ValidNow[m]) =>
                        \E n \in 1..(k - 1) : cand[n][1] = ValidNow[m]

\* C12 amended: when the kept people all have the same modifier, a number
\* above 0, every kept person whose last date is the sentinel stands in the
\* returned list before every person whose last date is later.
C12_NeverAssignedFirstEqualModifiers ==
    (/\ n_calls >= 1
     /\ \A m \in 1..Len(ValidNow) :
           /\ ~ModifierOf(ValidNow[m]).nan
           /\ ModifierOf(ValidNow[m]).v > 0
           /\ ModifierOf(ValidNow[m]) = ModifierOf(ValidNow[1]))
        => \A k \in 1..Len(cand) :
              cand[k][3] # Sentinel =>
                  \A m \in 1..Len(ValidNow) :
                      NeverAssigned(ValidNow[m]) =>
                          \E n \in 1..(k - 1) : cand[n][1] = ValidNow[m]

\* C12 witness: a list was returned for people of equal modifier 1.0 that
\* holds a person never assigned and, after that person, one with a last date.
C12_Witness ==
    /\ n_calls >= 1
    /\ \A m \in 1..Len(ValidNow) : ModifierOf(ValidNow[m]) = One
    /\ \E k \in 1..Len(cand), n \in 1..Len(cand) :
          n < k /\ cand[n][3] = Sentinel /\ cand[k][3] # Sentinel

(***************************************************************************)
(* Properties of the slots of main_assignment.                             *)
(***************************************************************************)

\* The slots that are ranked on every date: where main_assignment is, the
\* key, the output row, the required gender and where it goes on.
UnconditionalSlots ==
    { [at |-> "presidencia", key |-> "Presidencia", label |-> "PRESIDENCIA",
       then |-> "tesoros_perlas"],
      [at |-> "lector_ebc", key |-> "Lector EBC", label |-> "LECTOR EBC",
       then |-> "oracion"],
      [at |-> "oracion", key |-> "Oraciones", label |-> "ORACION",
       then |-> "sala_b"] }

\* get_top_candidates returns [] for the key, on the state at hand
NoCandidates(key, n, g) ==
    get_top_candidates(df_people, df_history, key, mtg_date, assigned_today, n, g) = <<>>

\* C13: a prompt is only ever issued on a list that is not empty, and when
\* the list of a slot is empty the step that ranks it issues no prompt,
\* appends nothing to the ledger, leaves the slot's cell blank and
\* assigned_today as it is, and goes on to the next slot.
C13_EmptyListSkipsSlot ==
    /\ [](phase = "pick" => cand # <<>>)
    /\ [][\A s \in UnconditionalSlots :
            (pc = s.at /\ phase = "begin" /\ NoCandidates(s.key, 3, ""))
                => /\ phase' = "begin" /\ pc' = s.then
                   /\ df_history' = df_history /\ n_appends' = n_appends
                   /\ assigned_today' = assigned_today
                   /\ df_final' = df_final
                   /\ df_final'[s.label][Col.header] = NaN]_vars

\* C13 witness: the date has gone past PRESIDENCIA, for which nobody is
\* eligible, with nobody assigned.
C13_Witness ==
    /\ pc = "tesoros_perlas" /\ phase = "begin" /\ r = 3
    /\ assigned_today = {}
    /\ NoCandidates("Presidencia", 3, "")
    /\ df_final["PRESIDENCIA"][Col.header] = NaN

(***************************************************************************)
(* The selection prompt on its own: pick_candidate_interactively called on *)
(* a list returned by get_top_candidates and answered until it returns.    *)
(***************************************************************************)

PickRosters == {SmallRoster, RankRoster}

PickLengths == {3, 5}

PickGenders == {"", "V"}

\* if not top_candidates: return None; otherwise the list is shown and the
\* prompt is issued
Called(top) ==
    /\ cand = top
    /\ phase = IF top = <<>> THEN "returned" ELSE "pick"

InitPick ==
    /\ df_people \in PickRosters
    /\ df_history \in RankLedgers
    /\ part_key \in RankKeys
    /\ top_n \in PickLengths
    /\ required_g \in PickGenders
    /\ mtg_date = Date(2024, 1, 30)
    /\ assigned_today = {}
    /\ Called(get_top_candidates(df_people, df_history, part_key, mtg_date,
                                 assigned_today, top_n, required_g))
    /\ answer = "" /\ picked = "" /\ last_ans = "" /\ rec_smm = <<>>
    /\ history0 = df_history /\ n_appends = 0 /\ n_calls = 0 /\ evals = <<>>
    /\ weekly_df = <<>> /\ date_cols = <<>> /\ pc = "none"
    /\ col_i = 0 /\ df_final = <<>>
    /\ r = 0 /\ tesoros_found = FALSE /\ perlas_found = FALSE /\ is_lec = FALSE
    /\ smm_index = 0 /\ smm_texts_main = NoTexts /\ r_smm = 0 /\ i_sb = 0
    /\ part_label = "" /\ saved_history = <<>> /\ final_xlsx = <<>>
    /\ q_name = "" /\ last_date = None

\* the outcome of one pass of the while loop
Returned(choice) ==
    IF choice = "invalid" THEN UNCHANGED <<phase, picked>>
    ELSE /\ phase' = "returned"
         /\ picked' = IF choice = "skip" THEN ""
                      ELSE df_people.rows[cand[ToInt(choice)][1]]["Hermano"]

\* choice = input(f"Choose 1..{max_count} or 'skip': ")
AnswerPrompt(typed) ==
    /\ phase = "pick"
    /\ answer' = typed
    /\ Returned(PickChoice(typed, Min(top_n, Len(cand))))
    /\ UNCHANGED <<df_people, df_history, part_key, top_n, required_g, mtg_date,
                   assigned_today, cand, history0, n_appends, n_calls, evals,
                   weekly_df, date_cols, pc, col_i, df_final, r, tesoros_found,
                   perlas_found, is_lec, smm_index, smm_texts_main, r_smm, i_sb,
                   part_label, saved_history, final_xlsx, q_name, last_date,
                   last_ans, rec_smm>>

NextPick == \E typed \in PickAnswers : AnswerPrompt(typed)

SpecPick == InitPick /\ [][NextPick]_vars

\* What Python makes of the answers after strip().lower(): the texts that
\* are the token skip, and the texts int() accepts with their values.
SkipTexts == {" Skip "}

IntegerTexts ==
    ("1" :> 1) @@ ("2" :> 2) @@ ("3" :> 3) @@ ("4" :> 4) @@ ("6" :> 6) @@ ("0" :> 0)
        @@ ("+2" :> 2) @@ ("02" :> 2) @@ ("-1" :> 0 - 1)

\* the name at a rank of the list shown
ShownName(k) == df_people.rows[cand[k][1]]["Hermano"]

\* C14: on a list that is not empty, the answer skip returns no selection,
\* an integer from 1 to the number of candidates shown returns the name at
\* that rank, every other answer leaves everything as it was and the prompt
\* is issued again; a name returned is one of the names shown.
C14_PromptReturnsSkipOrShownName ==
    /\ [](phase = "returned" /\ picked # "" =>
            \E k \in 1..Min(top_n, Len(cand)) : picked = ShownName(k))
    /\ [][phase = "pick" =>
            IF answer' \in SkipTexts
            THEN phase' = "returned" /\ picked' = ""
            ELSE IF /\ answer' \in DOMAIN IntegerTexts
                    /\ IntegerTexts[answer'] \in 1..Min(top_n, Len(cand))
            THEN phase' = "returned" /\ picked' = ShownName(IntegerTexts[answer'])
            ELSE /\ phase' = "pick" /\ picked' = picked /\ cand' = cand
                 /\ df_history' = df_history /\ assigned_today' = assigned_today]_vars

\* C14 witness: with at least two candidates shown and fewer than six, the
\* answer "6" was rejected, or the answer "+2" returned the second name.
C14_Witness ==
    /\ Len(cand) >= 2
    /\ \/ phase = "pick" /\ answer = "6"
       \/ phase = "returned" /\ answer = "+2" /\ picked = ShownName(2)

\* The raw keys main_assignment passes for an output row of the date in
\* progress: fixed for the named rows, the sub-part of the title in program
\* row 6+n for SMMn, with " Sala B" for the rows of Sala B.
MainKeys(label) ==
    CASE label = "PRESIDENCIA" -> {"Presidencia"}
      [] label = "TESOROS" -> {"Tesoros"}
      [] label = "PERLAS" -> {"Perlas"}
      [] label = "LECTURA" -> {"Lectura"}
      [] label \in {"NVC1", "NVC2"} -> {"NVC", "Necesidades"}
      [] label = "EBC" -> {"EBC"}
      [] label = "LECTOR EBC" -> {"Lector EBC"}
      [] label = "ORACION" -> {"Oraciones"}
      [] OTHER -> { SmmSubpart(identify_smm(Col, 6 + n)) : n \in { i \in 1..4 : label = SmmLabel(i) } }

RawKeys(label) ==
    IF EndsWith(label, " Sala B")
    THEN { key \o " Sala B" : key \in MainKeys(strip_sala_b_suffix(label)) }
    ELSE MainKeys(label)

\* a step of main_assignment that changes the ledger, the output table, or
\* assigned_today within a date
Commits ==
    \/ df_history' # df_history
    \/ df_final' # df_final
    \/ n_appends' # n_appends
    \/ pc # "date" /\ assigned_today' # assigned_today

\* C15: a step that commits a slot writes one of the names shown into the
\* slot's cell of the date, adds that name to assigned_today, and appends
\* exactly one record to the ledger: that name, the raw key of the slot
\* (with " Sala B" for a Sala B slot, the sub-part and not the column
\* "Estudiante" for an SMM slot) and the meeting date.
C15_OneCommitPerChosenName ==
    [][Commits =>
         /\ phase = "pick" /\ n_appends' = n_appends + 1
         /\ \E k \in 1..Min(top_n, Len(cand)) :
               /\ assigned_today' = assigned_today \cup {ShownName(k)}
               /\ df_final' = [df_final EXCEPT ![part_label][Col.header] = ShownName(k)]
               /\ Len(df_history') = Len(df_history) + 1
               /\ SubSeq(df_history', 1, Len(df_history)) = df_history
               /\ df_history'[Len(df_history')].Name = ShownName(k)
         /\ df_history'[Len(df_history')].Part \in RawKeys(part_label)
         /\ parse_date_str(df_history'[Len(df_history')].AssignmentDate) = mtg_date]_vars

\* C15 witness: the record appended last is for an SMM sub-part of Sala B,
\* and its name is written in an SMM row of Sala B and is in assigned_today.
C15_Witness ==
    /\ n_appends >= 1 /\ pc \in {"smm_sala_b", "save"}
    /\ is_smm_subpart(df_history[Len(df_history)].Part)
    /\ EndsWith(df_history[Len(df_history)].Part, " Sala B")
    /\ df_history[Len(df_history)].Name \in assigned_today
    /\ \E n \in 1..4 :
          df_final[SmmLabel(n) \o " Sala B"][Col.header] = df_history[Len(df_history)].Name

\* the operator answers skip at the selection prompt of the slot at hand
SkipsAtPrompt ==
    \E typed \in PickAnswers : Lower(Strip(typed)) = "skip" /\ AnswerPick(typed)

\* C16: when skip is answered at the selection prompt of a slot, the slot's
\* cell of the date stays blank and the ledger and assigned_today stay as
\* they are.
C16_SkipLeavesNoTrace ==
    [][SkipsAtPrompt =>
         /\ phase' = "begin"
         /\ df_history' = df_history /\ n_appends' = n_appends
         /\ assigned_today' = assigned_today
         /\ df_final' = df_final
         /\ df_final'[part_label][Col.header] = NaN]_vars

\* C16 witness: the date has gone past PRESIDENCIA, for which there are
\* candidates, and nobody is assigned: the prompt was answered with skip.
C16_Witness ==
    /\ pc = "tesoros_perlas" /\ phase = "begin" /\ r = 3
    /\ assigned_today = {}
    /\ ~NoCandidates("Presidencia", 3, "")
    /\ df_final["PRESIDENCIA"][Col.header] = NaN

\* the records of df_history that are not in the saved sheet
Unsaved == SubSeq(df_history, Len(saved_history) + 1, Len(df_history))

C18_GenderAnswerRespected ==
    [][\A typed \in GenderAnswers :
          (AnswerGender(typed) /\ ask_gender_or_skip(typed) \in {"V", "M"})
              => \A k \in 1..Len(cand') :
                    Upper(df_people.rows[cand'[k][1]]["Genero"]) = ask_gender_or_skip(typed)]_vars

\* the gender question of the slot in progress is answered skip or left empty
SkipsAtGender ==
    \E typed \in GenderAnswers : Lower(Strip(typed)) \in {"skip", ""} /\ AnswerGender(typed)

\* the step leaves an SMM slot unresolved and goes on to what follows it:
\* the next SMM row under the next label and then NVC in the main room, the
\* next replicated text and then the save in Sala B; nothing is written
AfterUnresolvedSmmSlot ==
    /\ phase' = "begin" /\ cand' = <<>>
    /\ df_history' = df_history /\ n_appends' = n_appends
    /\ assigned_today' = assigned_today
    /\ df_final' = df_final /\ df_final'[part_label][Col.header] = NaN
    /\ smm_texts_main' = smm_texts_main /\ is_lec' = is_lec
    /\ col_i' = col_i /\ mtg_date' = mtg_date
    /\ pc = "smm" =>
          /\ smm_index' = smm_index + 1
          /\ IF r_smm < 9 THEN pc' = "smm" /\ r_smm' = r_smm + 1 ELSE pc' = "nvc1"
    /\ pc = "smm_sala_b" =>
          /\ smm_index' = smm_index
          /\ IF i_sb < 4 THEN pc' = "smm_sala_b" /\ i_sb' = i_sb + 1 ELSE pc' = "save"

\* C19: skip, or the empty answer, at the gender question of a slot ranks
\* nobody, prompts for nobody and writes nothing, and the run goes on from
\* the slot exactly as it does when skip is answered at the selection prompt
\* of the same slot; the gender question is only ever asked in an SMM slot.
C19_GenderSkipAbortsOnlyThatSlot ==
    /\ [](phase = "gender" => pc \in {"smm", "smm_sala_b"} /\ cand = <<>>)
    /\ [][SkipsAtGender => AfterUnresolvedSmmSlot]_vars
    /\ [][SkipsAtPrompt /\ pc \in {"smm", "smm_sala_b"} => AfterUnresolvedSmmSlot]_vars

\* C19 witness: in the first date, whose row 7 asks the gender, the gender
\* question was answered skip: SMM1 is blank, nobody was prompted for, and
\* the run is at row 8 under the label SMM2.
C19_Witness ==
    /\ last_ans = "skip" /\ col_i = 1
    /\ pc = "smm" /\ phase = "begin" /\ r_smm = 8 /\ smm_index = 2
    /\ smm_texts_main[1] # ""
    /\ df_final["SMM1"][Col.header] = NaN

\* the statements of one date, in the order of main_assignment
DateOrder ==
    << "date", "presidencia", "tesoros_perlas", "lectura", "smm", "nvc1", "nvc2", "ebc",
       "lector_ebc", "oracion", "sala_b", "lectura_sala_b", "smm_sala_b", "save", "done" >>

PlaceOf(at) == CHOOSE k \in 1..Len(DateOrder) : DateOrder[k] = at

\* the step appends a record of a " Sala B" key or changes a " Sala B" cell
WritesSalaB ==
    \/ /\ Len(df_history') > Len(df_history)
       /\ EndsWith(df_history'[Len(df_history')].Part, " Sala B")
    \/ \E label \in DOMAIN df_final :
          EndsWith(label, " Sala B") /\ df_final'[label] # df_final[label]

\* nothing of Sala B is written for the date in progress
NoSalaBForDate ==
    /\ \A k \in 1..Len(Unsaved) : ~EndsWith(Unsaved[k].Part, " Sala B")
    /\ \A label \in DOMAIN df_final :
          EndsWith(label, " Sala B") => df_final[label][Col.header] = NaN

\* C20: within a date the run goes through the main-room slots in order,
\* then to the Sala B question, which it leaves at once and for good; only
\* the answer y sends it to the Sala B slots, every other answer sends it to
\* the save; a Sala B record or cell is written only inside the Sala B
\* slots, so until the question is answered y the date has none.
C20_SalaBAskedOnceAndObeyed ==
    /\ [](PlaceOf(pc) \in 2..PlaceOf("sala_b") => NoSalaBForDate)
    /\ [][(pc' # pc /\ pc \notin {"date", "save"})
             => \/ PlaceOf(pc') = PlaceOf(pc) + 1
                \/ pc = "sala_b" /\ pc' = "save"]_vars
    /\ [][pc = "sala_b" => pc' # "sala_b" /\ ~WritesSalaB /\ phase' = "begin"]_vars
    /\ [][\A typed \in SalaBAnswers :
             AnswerSalaB(typed)
                 => IF Lower(Strip(typed)) = "y" THEN pc' = "lectura_sala_b" ELSE pc' = "save"]_vars
    /\ [][(WritesSalaB \/ (phase' = "pick" /\ EndsWith(part_key', " Sala B")))
             => pc \in {"lectura_sala_b", "smm_sala_b"}]_vars

\* C20 witness: the question of the first date was answered no (i_sb was
\* never set, the first column has no Sala B cell), the question of the
\* second date has just been answered y.
C20_Witness ==
    /\ col_i = 2 /\ pc = "lectura_sala_b" /\ phase = "begin" /\ i_sb = 0
    /\ is_lec
    /\ \A label \in DOMAIN df_final :
          EndsWith(label, " Sala B") => df_final[label][weekly_df[date_cols[1]].header] = NaN

\* the keys that share the column "Estudiante", as the roles are listed
StudentKeys ==
    { "Lectura", "Discurso", "Haga Revisitas", "Empiece conversaciones",
      "Haga discipulos", "Explique sus creencias" }

\* the key without its " Sala B"
WithoutSalaB(key) ==
    IF EndsWith(key, " Sala B") THEN SubSeq(key, 1, Len(key) - 7) ELSE key

\* the column C21 states for a key
StatedColumn(key) ==
    IF WithoutSalaB(key) \in StudentKeys THEN "Estudiante" ELSE WithoutSalaB(key)

\* the keys main_assignment passes, and keys it does not know
StatedKeys ==
    { "Presidencia", "Tesoros", "Perlas", "Lectura", "NVC", "Necesidades", "EBC",
      "Lector EBC", "Oraciones", "Estudiante", "Limpieza", "lectura", "", "Sala B" }
    \cup StudentKeys

\* C21: get_people_column_for_part gives "Estudiante" for Lectura and the
\* five SMM sub-parts, with or without " Sala B", and the key without
\* " Sala B" for every other key; every person get_top_candidates returns
\* has YES, in any letter case, in that column.
C21_EligibilityColumn ==
    /\ \A key \in StatedKeys :
          /\ get_people_column_for_part(key) = StatedColumn(key)
          /\ get_people_column_for_part(key \o " Sala B") = StatedColumn(key)
    /\ get_people_column_for_part(part_key) = StatedColumn(part_key)
    /\ n_calls >= 1 =>
          \A k \in 1..Len(cand) :
             /\ StatedColumn(part_key) \in df_people.columns
             /\ Upper(CandidateRow(k)[StatedColumn(part_key)]) = "YES"

\* C21 witness: a list was returned for "Haga discipulos Sala B" on a roster
\* that has somebody whose "Estudiante" is not YES.
C21_Witness ==
    /\ n_calls >= 1 /\ cand # <<>> /\ part_key = "Haga discipulos Sala B"
    /\ \E i \in 1..Len(df_people.rows) : Upper(df_people.rows[i]["Estudiante"]) # "YES"

(***************************************************************************)
(* add_history and parse_date_str on the meeting dates that column headers *)
(* give: a record is written for the date, and its text is read back.      *)
(***************************************************************************)

MaxWrites == 2

\* column headers in the three encodings: days up to 12 and above, a leap
\* day, the ends of a year, a year of fewer than four digits
DateHeaders ==
    { "05/03/2024", "03/05/2024", "12/12/2024", "13/01/2024", "29/02/2024",
      "2024-02-01", "2025-12-31", "01/01/2025", "12/31/2024", "1/2/2024",
      "07/08/1000", "05/03/0999", "31/12/9999" }

WriteKeys == {"Lectura", "Estudiante Sala B", "Presidencia"}

\* mtg_date = parse_date_str(col) of the headers that are dates
MeetingDates == { parse_date_str(col) : col \in DateHeaders } \ {None}

InitDate ==
    /\ mtg_date \in MeetingDates
    /\ df_history \in { <<>>, << HistoryRow("Ana", "Lectura", "2024-01-16") >> }
    /\ history0 = df_history
    /\ n_appends = 0
    /\ q_name = "" /\ part_key = "" /\ last_date = None
    /\ df_people = SmallRoster /\ weekly_df = <<>> /\ date_cols = <<>>
    /\ pc = "none" /\ phase = "none" /\ col_i = 0
    /\ assigned_today = {} /\ df_final = <<>>
    /\ r = 0 /\ tesoros_found = FALSE /\ perlas_found = FALSE /\ is_lec = FALSE
    /\ smm_index = 0 /\ smm_texts_main = NoTexts /\ r_smm = 0 /\ i_sb = 0
    /\ part_label = "" /\ top_n = 0 /\ required_g = "" /\ cand = <<>>
    /\ saved_history = <<>> /\ final_xlsx = <<>> /\ n_calls = 0 /\ evals = <<>>
    /\ answer = "" /\ picked = "" /\ last_ans = "" /\ rec_smm = <<>>

\* df_history = add_history(df_history, name, key, mtg_date)
WriteRecord(hermano_name, key, date_text) ==
    /\ n_appends < MaxWrites
    /\ df_history' = add_history_text(df_history, hermano_name, key, date_text)
    /\ n_appends' = n_appends + 1
    /\ q_name' = hermano_name
    /\ part_key' = key
    /\ last_date' = None
    /\ UNCHANGED <<run_vars, history0>>

\* parse_date_str(row["AssignmentDate"]) of the record written last
ReadBack ==
    /\ n_appends >= 1
    /\ last_date' = parse_date_str(df_history[Len(df_history)].AssignmentDate)
    /\ UNCHANGED <<run_vars, df_history, history0, n_appends, q_name, part_key>>

NextDate ==
    \/ \E hermano_name \in LedgerNames, key \in WriteKeys :
          \E date_text \in strftime_texts(mtg_date) :
              WriteRecord(hermano_name, key, date_text)
    \/ ReadBack

SpecDate == InitDate /\ [][NextDate]_vars

\* the text is two digits, "/", two digits, "/", and the year
DayMonthYearText(text) ==
    /\ Len(text) >= 7
    /\ AllDigits(SubSeq(text, 1, 2)) /\ CharAt(text, 3) = "/"
    /\ AllDigits(SubSeq(text, 4, 5)) /\ CharAt(text, 6) = "/"
    /\ AllDigits(SubSeq(text, 7, Len(text)))

\* C22: every record add_history appends holds its date as day/month/year
\* text, and parse_date_str of that text is the meeting date that was
\* written, for every meeting date.
C22_DateRoundTrip ==
    \A k \in (Len(history0) + 1)..Len(df_history) :
        /\ DayMonthYearText(df_history[k].AssignmentDate)
        /\ parse_date_str(df_history[k].AssignmentDate) = mtg_date

(***************************************************************************)
(* main_assignment when every prompt gets a valid answer in the end.  An   *)
(* answer that is not valid leaves every variable as it is, and every      *)
(* other step of Next, a statement of main_assignment or a valid answer,   *)
(* changes the place the run is at.  The fairness condition says that the  *)
(* run, until it is over, does not stay for ever at one place: the         *)
(* interpreter goes on to the next statement, and a prompt is not answered *)
(* with invalid texts for ever.                                            *)
(***************************************************************************)

\* where main_assignment is: the slot, the prompt, the loop counters
place == <<pc, phase, col_i, r, r_smm, i_sb, smm_index>>

\* a step of the run to another place
GoesOn ==
    /\ pc # "done"
    /\ pc' \in { "date", "presidencia", "tesoros_perlas", "lectura", "smm", "nvc1", "nvc2",
                 "ebc", "lector_ebc", "oracion", "sala_b", "lectura_sala_b", "smm_sala_b",
                 "save", "done" }
    /\ phase' \in {"begin", "gender", "pick"}
    /\ col_i' \in {col_i, col_i + 1}
    /\ r' \in 0..4 /\ r_smm' \in 0..9 /\ i_sb' \in 0..4 /\ smm_index' \in 0..5

SpecAnswered == Spec /\ WF_place(GoesOn)

\* the answers that the three prompts take, as their messages list them
ValidGenderTexts == { typed \in GenderAnswers : Lower(Strip(typed)) \in {"v", "m", "skip", ""} }

ValidPickTexts ==
    { typed \in PickAnswers :
        \/ typed \in SkipTexts
        \/ typed \in DOMAIN IntegerTexts /\ IntegerTexts[typed] \in 1..Min(top_n, Len(cand)) }

\* C23: a step taken at a prompt is the step of a valid answer to that
\* prompt; the date columns are taken one after the other, each left only
\* through the save of the ledger; the output table is written in one step,
\* after the last column, and that step ends the run; and when valid answers
\* come in the end the run reaches that end.
C23_RunTerminatesAfterEveryDate ==
    /\ [][phase = "gender" => \E typed \in ValidGenderTexts : AnswerGender(typed)]_vars
    /\ [][phase = "pick" => \E typed \in ValidPickTexts : AnswerPick(typed)]_vars
    /\ [][pc = "sala_b" => \E typed \in SalaBAnswers : AnswerSalaB(typed)]_vars
    /\ [][/\ col_i' \in {col_i, col_i + 1}
          /\ col_i' = col_i + 1 => (pc = "save" /\ pc' = "date" /\ saved_history' = df_history)
          /\ (pc = "date" /\ pc' # "date") =>
                IF col_i <= Len(date_cols)
                THEN pc' = "presidencia" /\ mtg_date' = parse_date_str(Col.header)
                ELSE pc' = "done"
          /\ final_xlsx' # final_xlsx =>
                (pc = "date" /\ col_i = Len(date_cols) + 1 /\ pc' = "done"
                 /\ final_xlsx = <<>> /\ final_xlsx' = df_final)
          /\ pc # "done"]_vars
    /\ [](pc = "done" => /\ col_i = Len(date_cols) + 1
                         /\ final_xlsx = df_final /\ saved_history = df_history)
    /\ <>(pc = "done")

\* C23 witness: the run is over after two dates, with names written for
\* both, a gender question answered and the ledger saved.
C23_Witness ==
    /\ pc = "done" /\ Len(date_cols) = 2 /\ last_ans \in {"V", "M"}
    /\ final_xlsx = df_final /\ saved_history = df_history
    /\ Len(df_history) >= Len(history0) + 2
    /\ \A i \in 1..2 : \E label \in DOMAIN df_final :
          df_final[label][weekly_df[date_cols[i]].header] # NaN

(***************************************************************************)
(* get_recent_smm_assignments: the "Last SMM(n-k)" lines of the prompt     *)
(***************************************************************************)

\* out.append((dt_str, row["Part"])): dt_str is "None" unless the cell parses
RecentEntry(row) ==
    << IF parse_date_str(row.AssignmentDate) # None
       THEN strftime_dmY(parse_date_str(row.AssignmentDate))
       ELSE "None",
       row.Part >>

\* the person's rows whose part is an SMM sub-part, sorted by the text of
\* AssignmentDate in descending order, the first how_many of them; no row of
\* the person, or none of an SMM sub-part, gives []
get_recent_smm_assignments(history, person_name, how_many) ==
    LET allr == SelectSeq(history, LAMBDA row : row.Name = person_name)
        sub == SelectSeq(allr, LAMBDA row : strip_sala_b_suffix(row.Part) \in SMM_SUBPARTS)
        shown == Take(sort_values_desc(sub), how_many)
    IN  [k \in 1..Len(shown) |-> RecentEntry(shown[k])]

RecentLedgers ==
    { <<>>,
      << HistoryRow("Carlos", "Discurso", "04/01/2024"),
         HistoryRow("Ana", "Haga Revisitas", "06/01/2024"),
         HistoryRow("Carlos", "Lectura", "27/01/2024"),
         HistoryRow("Carlos", "Haga Revisitas Sala B", "18/01/2024"),
         HistoryRow("Carlos", "Explique sus creencias", "11/01/2024"),
         HistoryRow("Carlos", "Presidencia", "28/01/2024") >>,
      << HistoryRow("Carlos", "Empiece conversaciones", "2024-01-16"),
         HistoryRow("Carlos", "Discurso Sala B", NaN),
         HistoryRow("Ana", "Lectura Sala B", "20/01/2024") >>,
      << HistoryRow("Carlos", "Discurso", "25/01/2024"),
         HistoryRow("Carlos", "Haga discipulos", "18/01/2024") >> }

InitRecent ==
    /\ NoRun
    /\ df_history \in RecentLedgers
    /\ history0 = df_history
    /\ n_appends = 0
    /\ q_name = "" /\ part_key = "" /\ last_date = None

\* rec_smm = get_recent_smm_assignments(df_history, hermano, how_many=3)
GetRecentSmmAssignments(person_name) ==
    /\ q_name' = person_name
    /\ rec_smm' = get_recent_smm_assignments(df_history, person_name, 3)
    /\ UNCHANGED <<df_people, df_history, weekly_df, date_cols, pc, phase, col_i,
                   mtg_date, assigned_today, df_final, r, tesoros_found,
                   perlas_found, is_lec, smm_index, smm_texts_main, r_smm, i_sb,
                   part_key, part_label, top_n, required_g, cand, saved_history,
                   final_xlsx, history0, n_appends, n_calls, last_date, evals,
                   answer, picked, last_ans>>

NextRecent ==
    \/ \E part \in LedgerParts, date \in LedgerDates : AddHistory("Carlos", part, date)
    \/ \E person_name \in LedgerNames : GetRecentSmmAssignments(person_name)

SpecRecent == InitRecent /\ [][NextRecent]_vars

\* the records of the person asked about whose role is an SMM sub-part, with
\* or without " Sala B"
SmmRecordsAsked ==
    SelectSeq(df_history, LAMBDA row : row.Name = q_name /\ is_smm_subpart(row.Part))

\* how many of these records are dated after the date written in text
DatedAfter(text) ==
    Cardinality({ i \in 1..Len(SmmRecordsAsked) :
                    ToOrdinal(parse_date_str(SmmRecordsAsked[i].AssignmentDate))
                        > ToOrdinal(parse_date_str(text)) })

\* The list returned has at most three entries, as many as the person has
\* SMM records up to three, and each entry is the date and the part of one
\* of these records.
RecentSmmAreOwnRecords ==
    q_name # "" =>
        /\ Len(rec_smm) = Min(3, Len(SmmRecordsAsked))
        /\ \A k \in 1..Len(rec_smm) : \E i \in 1..Len(SmmRecordsAsked) :
              /\ rec_smm[k][2] = SmmRecordsAsked[i].Part
              /\ rec_smm[k][1] = IF Parses(SmmRecordsAsked[i])
                                 THEN strftime_dmY(parse_date_str(SmmRecordsAsked[i].AssignmentDate))
                                 ELSE "None"

\* C24: get_recent_smm_assignments returns at most how_many (3) entries, all
\* of them records of the person whose role is an SMM sub-part (with or
\* without " Sala B"), most recent first: the k-th entry has fewer than k of
\* the person's SMM records dated after it.  Stated for ledgers in which the
\* person's SMM records all parse.
C24_RecentSmmMostRecentFirst ==
    (q_name # "" /\ \A i \in 1..Len(SmmRecordsAsked) : Parses(SmmRecordsAsked[i])) =>
        /\ RecentSmmAreOwnRecords
        /\ \A k \in 1..Len(rec_smm) : DatedAfter(rec_smm[k][1]) < k

\* the limit is reached and the text order is the order of the dates
RecentSmmLimitReached ==
    /\ q_name = "Carlos" /\ Len(SmmRecordsAsked) >= 4 /\ Len(rec_smm) = 3
    /\ rec_smm[1] = <<"18/01/2024", "Haga Revisitas Sala B">>

\* the person has no explicit weight under the key at hand: the
\* "<column> Mod" column is missing or the person's cell in it is blank
NoExplicitWeight(idx) ==
    \/ get_people_column_for_part(part_key) \o " Mod" \notin df_people.columns
    \/ df_people.rows[idx][get_people_column_for_part(part_key) \o " Mod"] = FloatNaN

\* the column of the weight is missing, and the score is the weeks since the
\* last assignment
MissingModColumnScoresWeeks ==
    \A k \in 1..Len(evals) :
        get_people_column_for_part(part_key) \o " Mod" \notin df_people.columns =>
            evals[k].score = Product(weeks_since_assignment(evals[k].last_date, evals[k].date), One)

\* C25: whenever the person has no explicit weight for the role's eligibility
\* column (the "<column> Mod" column is missing, or the person's cell in it
\* is blank) the modifier is 1.0: the score equals the weeks since the last
\* assignment.
C25_ModifierDefaultsToOne ==
    \A k \in 1..Len(evals) :
        NoExplicitWeight(evals[k].idx) =>
            evals[k].score = Product(weeks_since_assignment(evals[k].last_date, evals[k].date), One)

\* a person was scored under a key whose "<column> Mod" column the roster
\* does not have
MissingModColumnScored ==
    /\ Len(evals) >= 1 /\ part_key = "Presidencia"
    /\ "Presidencia Mod" \notin df_people.columns
    /\ ~evals[1].score.nan /\ evals[1].score.v > 0

(***************************************************************************)
(* Replication of the main-room slots in Sala B                            *)
(***************************************************************************)

\* the Sala B slot of the label is being resolved: its gender question or
\* its selection prompt is on the screen
ResolvingSalaB(label) ==
    /\ pc \in {"lectura_sala_b", "smm_sala_b"}
    /\ phase \in {"gender", "pick"}
    /\ part_label = label \o " Sala B"

\* the main-room cell of the label is filled for the date in progress
AssignedInMain(label) == df_final[label][Col.header] # NaN

ReplicatedLabels == {"LECTURA", "SMM1", "SMM2", "SMM3", "SMM4"}

\* A Sala B slot is resolved only for a main-room row that has a text: the
\* Lectura row was identified, the SMM row of that index holds a title.
SalaBOnlyForRowsWithText ==
    /\ ResolvingSalaB("LECTURA") => is_lec
    /\ \A n \in 1..4 : ResolvingSalaB(SmmLabel(n)) => smm_texts_main[n] # ""

\* C26: "LECTURA Sala B" is ranked and prompted only if LECTURA in the main
\* room was assigned on that date, and "SMMn Sala B" is resolved only if SMMn
\* was assigned in the main room; a main-room slot that was skipped or had no
\* candidate has no Sala B counterpart, so no Sala B cell is filled over a
\* blank main-room cell.
C26_SalaBOnlyAfterMainAssigned ==
    \A label \in ReplicatedLabels :
        /\ ResolvingSalaB(label) => AssignedInMain(label)
        /\ \A c \in 1..Len(date_cols) :
              df_final[label \o " Sala B"][weekly_df[date_cols[c]].header] # NaN
                  => df_final[label][weekly_df[date_cols[c]].header] # NaN

(***************************************************************************)
(* Parts for brothers only                                                 *)
(***************************************************************************)

MenOnlyParts == {"Lectura", "Lectura Sala B", "Discurso", "Discurso Sala B"}

\* the roster rows of the name
RowsNamed(hermano_name) ==
    { i \in 1..Len(df_people.rows) : df_people.rows[i]["Hermano"] = hermano_name }

\* C27: every record appended by the run whose role is "Lectura",
\* "Lectura Sala B", "Discurso" or "Discurso Sala B" names a person of the
\* roster whose gender cell reads V (read as the filter reads it,
\* str(...).upper()), whatever the operator answered.
C27_MenOnlyParts ==
    \A k \in (Len(history0) + 1)..Len(df_history) :
        df_history[k].Part \in MenOnlyParts =>
            /\ RowsNamed(df_history[k].Name) # {}
            /\ \A i \in RowsNamed(df_history[k].Name) :
                  Get(df_people.rows[i], "Genero", "") = "V"

\* C27 witness: a reading in Sala B was given by the run while an active
\* sister who is a student had no part that date.
C27_Witness ==
    /\ \E k \in (Len(history0) + 1)..Len(df_history) :
          /\ df_history[k].Part = "Lectura Sala B"
          /\ df_history[k].AssignmentDate \in strftime_texts(mtg_date)
    /\ \E i \in 1..Len(df_people.rows) :
          /\ Get(df_people.rows[i], "Genero", "") = "M"
          /\ Get(df_people.rows[i], "Activo?", "NO") = "YES"
          /\ Get(df_people.rows[i], "Estudiante", "NO") = "YES"
          /\ df_people.rows[i]["Hermano"] \notin assigned_today

(***************************************************************************)
(* The output table, assigned_today and the ledger                         *)
(***************************************************************************)

\* the header of the c-th date column
HeaderOf(c) == weekly_df[date_cols[c]].header

\* the labels whose cell of the c-th date is filled
FilledCells(c) == { label \in DOMAIN df_final : df_final[label][HeaderOf(c)] # NaN }

\* the records appended by the run for the c-th date
AppendedFor(c) ==
    LET texts == strftime_texts(parse_date_str(HeaderOf(c)))
    IN  { k \in (Len(history0) + 1)..Len(df_history) : df_history[k].AssignmentDate \in texts }

\* the date column whose assigned_today set is the one held: the column in
\* progress, the column just saved once the run is between two dates
DateHeld == IF pc \in {"date", "done"} THEN col_i - 1 ELSE col_i

\* the cells that differ between the two tables
CellsChanged(before, after) ==
    { <<label, h>> \in (DOMAIN before) \X { HeaderOf(c) : c \in 1..Len(date_cols) } :
        after[label][h] # before[label][h] }

\* C28: at every point of the run and for every date, the filled output
\* cells of the date, the names of the date's assigned_today set and the
\* records the run appended for the date correspond one to one (same names,
\* same count); and no output cell is written more than once: a cell changes
\* only from blank to a name, one cell for each record appended.
C28_OutputLedgerCorrespondence ==
    /\ [](\A c \in 1..Len(date_cols) :
            LET filled == FilledCells(c)
                appended == AppendedFor(c)
            IN  /\ Cardinality(filled) = Cardinality(appended)
                /\ \A hermano \in { df_people.rows[i]["Hermano"] : i \in 1..Len(df_people.rows) } :
                      Cardinality({ label \in filled : df_final[label][HeaderOf(c)] = hermano })
                        = Cardinality({ k \in appended : df_history[k].Name = hermano })
                /\ c = DateHeld =>
                      /\ assigned_today = { df_final[label][HeaderOf(c)] : label \in filled }
                      /\ Cardinality(assigned_today) = Cardinality(filled)
                /\ c > DateHeld => filled = {})
    /\ [](DateHeld = 0 => assigned_today = {})
    /\ [][/\ \A cell \in CellsChanged(df_final, df_final') : df_final[cell[1]][cell[2]] = NaN
          /\ Cardinality(CellsChanged(df_final, df_final')) = Len(df_history') - Len(df_history)
          /\ Len(df_history') - Len(df_history) \in {0, 1}]_vars

\* C28 witness: the run is over two dates and is done; the two dates have two
\* filled cells or more each, one of them in Sala B.
C28_Witness ==
    /\ pc = "done" /\ Len(date_cols) = 2
    /\ Cardinality(FilledCells(1)) >= 2
    /\ Cardinality(FilledCells(2)) >= 2
    /\ \E label \in FilledCells(1) \cup FilledCells(2) : EndsWith(label, " Sala B")

(***************************************************************************)
(* The labels of the SMM slots                                             *)
(***************************************************************************)

\* the title in the row of the sheet that label SMMn stands for, in the
\* c-th date column
SmmTitle(c, n) == identify_smm(weekly_df[date_cols[c]], 6 + n)

\* C29: the SMM labels go by the row of the program, not by the count of
\* rows that hold a title: the title in row 7, 8, 9 is resolved under SMM1,
\* SMM2, SMM3, in the main room and in Sala B, also after an empty row, so a
\* filled cell SMMn (or SMMn Sala B) belongs to a title in row 6 + n; and the
\* rows SMM4 and SMM4 Sala B are blank for every date.
C29_SmmLabelIsRowPosition ==
    /\ pc = "smm" => smm_index = r_smm - 6
    /\ (pc = "smm" /\ phase \in {"gender", "pick"}) =>
          /\ part_label = SmmLabel(r_smm - 6)
          /\ SmmTitle(col_i, r_smm - 6) # ""
          /\ part_key = SmmSubpart(SmmTitle(col_i, r_smm - 6))
    /\ (pc = "smm_sala_b" /\ phase \in {"gender", "pick"}) =>
          /\ i_sb \in 1..3
          /\ part_label = SmmLabel(i_sb) \o " Sala B"
          /\ SmmTitle(col_i, i_sb) # ""
          /\ part_key = SmmSubpart(SmmTitle(col_i, i_sb)) \o " Sala B"
    /\ \A c \in 1..Len(date_cols), n \in 1..3 :
          /\ df_final[SmmLabel(n)][weekly_df[date_cols[c]].header] # NaN => SmmTitle(c, n) # ""
          /\ df_final[SmmLabel(n) \o " Sala B"][weekly_df[date_cols[c]].header] # NaN
                => SmmTitle(c, n) # ""
    /\ \A c \in 1..Len(date_cols) :
          /\ df_final["SMM4"][weekly_df[date_cols[c]].header] = NaN
          /\ df_final["SMM4 Sala B"][weekly_df[date_cols[c]].header] = NaN

\* C29 witness: in a program whose row 7 has a title, row 8 is empty and
\* row 9 has a title, the cell SMM3 is filled, as is the cell SMM1 Sala B,
\* and the cells SMM2 and SMM2 Sala B are blank.
C29_Witness ==
    \E c \in 1..Len(date_cols) :
        /\ SmmTitle(c, 1) # "" /\ SmmTitle(c, 2) = "" /\ SmmTitle(c, 3) # ""
        /\ df_final["SMM3"][weekly_df[date_cols[c]].header] # NaN
        /\ df_final["SMM1 Sala B"][weekly_df[date_cols[c]].header] # NaN
        /\ df_final["SMM2"][weekly_df[date_cols[c]].header] = NaN
        /\ df_final["SMM2 Sala B"][weekly_df[date_cols[c]].header] = NaN

====
